---- MODULE Spec2Model ----
(***************************************************************************)
(* Model of simm-rs: the ISDA SIMM aggregation pipeline                    *)
(* (SIMM::from_crif -> calculate_simm -> simm_product / simm_risk_class    *)
(* -> MarginByRiskClass -> k_delta) and its parameter providers.           *)
(*                                                                         *)
(* Number model.  Every f64 of the program is an integer count of cents    *)
(* (Unit = 100 per currency unit) or the value NaN.  Risk weights are kept *)
(* in tenths (RWScale), correlations in hundredths (CorrScale) or          *)
(* thousandths (PhiScale), concentration factors in thousandths (CRScale), *)
(* concentration thresholds in units of 10^4 USD.  Products and square     *)
(* roots are computed exactly on arbitrary-precision naturals (base 10^4   *)
(* limbs) and only the result is cut back to cents, so the 32-bit integers *)
(* of the checker never overflow silently.                                 *)
(***************************************************************************)
EXTENDS Integers, Sequences, FiniteSets, TLC

(***************************************************************************)
(* Scales of the number model                                              *)
(***************************************************************************)
Unit == 100
RWScale == 10
CorrScale == 100
PhiScale == 1000
CRScale == 1000
Base == 10000
MaxInt == 2147483646
NaN == -2147483647

(***************************************************************************)
(* Option<T>: None is the empty sequence, Some(v) the one-element sequence *)
(***************************************************************************)
None == <<>>
Some(v) == <<v>>
IsSome(o) == o # <<>>
Unwrap(o) == o[1]
UnwrapOr(o, d) == IF o = <<>> THEN d ELSE o[1]

Abs(n) == IF n < 0 THEN -n ELSE n
Sgn(n) == IF n < 0 THEN -1 ELSE IF n > 0 THEN 1 ELSE 0
Min(a, b) == IF a <= b THEN a ELSE b
Max(a, b) == IF a >= b THEN a ELSE b

(***************************************************************************)
(* Panics and Results                                                      *)
(***************************************************************************)
\* the value of a call that panics, where a number is returned
Panic == -2147483646

\* the same for a call that returns a map, a table or a Result
Unwound == [panic |-> TRUE]
Panicked(r) == "panic" \in DOMAIN r

\* anyhow::Result
Ok(v) == [ok |-> TRUE, v |-> v]
Err(e) == [ok |-> FALSE, e |-> e]

(***************************************************************************)
(* Arbitrary-precision naturals: little-endian sequences of limbs < Base   *)
(***************************************************************************)
RECURSIVE BNorm(_)
BNorm(a) ==
    IF a = <<>> THEN a
    ELSE IF a[Len(a)] = 0 THEN BNorm(SubSeq(a, 1, Len(a) - 1)) ELSE a

RECURSIVE BFromNat(_)
BFromNat(n) == IF n = 0 THEN <<>> ELSE <<n % Base>> \o BFromNat(n \div Base)

RECURSIVE BToNat(_)
BToNat(a) == IF a = <<>> THEN 0 ELSE a[1] + Base * BToNat(Tail(a))

Limb(a, i) == IF i <= Len(a) THEN a[i] ELSE 0

RECURSIVE BAddC(_, _, _, _)
BAddC(a, b, i, c) ==
    IF i > Len(a) /\ i > Len(b)
    THEN IF c = 0 THEN <<>> ELSE <<c>>
    ELSE LET s == Limb(a, i) + Limb(b, i) + c
         IN  <<s % Base>> \o BAddC(a, b, i + 1, s \div Base)

BAdd(a, b) == BAddC(a, b, 1, 0)

RECURSIVE BSubC(_, _, _, _)
BSubC(a, b, i, c) ==
    IF i > Len(a) THEN <<>>
    ELSE LET s == Limb(a, i) - Limb(b, i) - c
         IN  IF s < 0 THEN <<s + Base>> \o BSubC(a, b, i + 1, 1)
                      ELSE <<s>> \o BSubC(a, b, i + 1, 0)

BSub(a, b) == BNorm(BSubC(a, b, 1, 0))

RECURSIVE BCmpAt(_, _, _)
BCmpAt(a, b, i) ==
    IF i = 0 THEN 0
    ELSE IF Limb(a, i) > Limb(b, i) THEN 1
    ELSE IF Limb(a, i) < Limb(b, i) THEN -1
    ELSE BCmpAt(a, b, i - 1)

BCmp(a, b) == BCmpAt(a, b, Max(Len(a), Len(b)))

RECURSIVE BMulLimb(_, _, _, _)
BMulLimb(a, d, i, c) ==
    IF i > Len(a)
    THEN IF c = 0 THEN <<>> ELSE <<c>>
    ELSE LET s == a[i] * d + c
         IN  <<s % Base>> \o BMulLimb(a, d, i + 1, s \div Base)

RECURSIVE BMul(_, _)
BMul(a, b) ==
    IF b = <<>> \/ a = <<>> THEN <<>>
    ELSE BAdd(BMulLimb(a, b[1], 1, 0), <<0>> \o BMul(a, Tail(b)))

RECURSIVE BDivAt(_, _, _, _)
BDivAt(a, d, i, r) ==
    IF i = 0 THEN <<>>
    ELSE LET cur == r * Base + a[i]
         IN  BDivAt(a, d, i - 1, cur % d) \o <<cur \div d>>

\* floor(a / d) for a divisor d <= 214748 (so that r * Base + limb fits)
BDivNat(a, d) == BNorm(BDivAt(a, d, Len(a), 0))

RECURSIVE BSqrtSearch(_, _, _, _)
BSqrtSearch(a, d, lo, hi) ==
    IF lo = hi THEN lo
    ELSE LET mid == lo + ((hi - lo) \div 2) + ((hi - lo) % 2)
             m == BFromNat(mid)
         IN  IF BCmp(BMul(BMul(m, m), d), a) <= 0
             THEN BSqrtSearch(a, d, mid, hi)
             ELSE BSqrtSearch(a, d, lo, mid - 1)

\* floor(sqrt(a / d)) for d > 0; the root has to fit the checker's integers
BSqrtDiv(a, d) ==
    LET n == BNorm(a)
        hi == IF Len(n) >= 5 THEN MaxInt
              ELSE IF Len(n) = 4 THEN 99999999
              ELSE IF Len(n) = 3 THEN 999999
              ELSE IF Len(n) = 2 THEN 9999 ELSE 99
    IN  IF n = <<>> THEN 0 ELSE BSqrtSearch(n, d, 0, hi)

(***************************************************************************)
(* Signed arbitrary-precision integers: [neg, mag]                         *)
(***************************************************************************)
SB(n) == [neg |-> n < 0, mag |-> BFromNat(Abs(n))]
SBZero == [neg |-> FALSE, mag |-> <<>>]
SBIsZero(x) == BNorm(x.mag) = <<>>

SBAdd(x, y) ==
    IF x.neg = y.neg THEN [neg |-> x.neg, mag |-> BAdd(x.mag, y.mag)]
    ELSE IF BCmp(x.mag, y.mag) >= 0
         THEN [neg |-> x.neg, mag |-> BSub(x.mag, y.mag)]
         ELSE [neg |-> y.neg, mag |-> BSub(y.mag, x.mag)]

SBMul(x, y) == [neg |-> x.neg # y.neg, mag |-> BMul(x.mag, y.mag)]
SBMulInt(x, n) == SBMul(x, SB(n))

\* division truncating toward zero, as a rounding of the exact quotient
SBDivNat(x, d) == [neg |-> x.neg, mag |-> BDivNat(x.mag, d)]

SBToInt(x) == IF x.neg THEN -BToNat(BNorm(x.mag)) ELSE BToNat(BNorm(x.mag))

RECURSIVE SBSum(_)
SBSum(xs) == IF xs = <<>> THEN SBZero ELSE SBAdd(xs[1], SBSum(Tail(xs)))

(***************************************************************************)
(* f64 operations on cents-or-NaN                                          *)
(***************************************************************************)
IsNaN(x) == x = NaN

FAdd(a, b) == IF IsNaN(a) \/ IsNaN(b) THEN NaN ELSE a + b
FNeg(a) == IF IsNaN(a) THEN NaN ELSE -a
FAbs(a) == IF IsNaN(a) THEN NaN ELSE Abs(a)

\* f64::min / f64::max return the other operand when one is NaN
FMin(a, b) == IF IsNaN(a) THEN b ELSE IF IsNaN(b) THEN a ELSE Min(a, b)
FMax(a, b) == IF IsNaN(a) THEN b ELSE IF IsNaN(b) THEN a ELSE Max(a, b)

RECURSIVE FSum(_)
FSum(xs) == IF xs = <<>> THEN 0 ELSE FAdd(xs[1], FSum(Tail(xs)))

HasNaN(xs) == \E i \in 1..Len(xs) : IsNaN(xs[i])

\* a * n / d for a money value a and an exact rational factor n / d
FScale(a, n, d) ==
    IF IsNaN(a) THEN NaN ELSE SBToInt(SBDivNat(SBMulInt(SB(a), n), d))

\* a * b of two money values, exact, in cents^2
FMulSB(a, b) == SBMul(SB(a), SB(b))

\* f64::sqrt of the exact quotient x / d: NaN for a negative one
FSqrtSB(x, d) ==
    IF x.neg /\ ~SBIsZero(x) THEN NaN ELSE BSqrtDiv(x.mag, BFromNat(d))

(***************************************************************************)
(* Iterator::collect: a sequence or a map with its elements computed once  *)
(***************************************************************************)
collect(f) == f \o <<>>
collect_map(f) == f @@ <<>>

\* `let v = ...;` followed by the statements In that use v
Let(v, In(_)) == In(v)

(***************************************************************************)
(* Strings: the conversions of the program, computed character by          *)
(* character                                                               *)
(***************************************************************************)
RECURSIVE Find(_, _, _)
Find(s, c, i) ==
    IF i > Len(s) THEN 0
    ELSE IF SubSeq(s, i, i) = c THEN i ELSE Find(s, c, i + 1)

\* position of x in the sequence xs, None when absent (Iterator::position)
RECURSIVE position(_, _, _)
position(xs, x, i) ==
    IF i > Len(xs) THEN None
    ELSE IF xs[i] = x THEN Some(i) ELSE position(xs, x, i + 1)

contains(xs, x) == \E i \in 1..Len(xs) : xs[i] = x

RECURSIVE to_lowercase(_)
to_lowercase(s) ==
    IF s = "" THEN ""
    ELSE Let(Find("ABCDEFGHIJKLMNOPQRSTUVWXYZ", SubSeq(s, 1, 1), 1), LAMBDA k :
             (IF k = 0 THEN SubSeq(s, 1, 1)
              ELSE SubSeq("abcdefghijklmnopqrstuvwxyz", k, k))
             \o to_lowercase(SubSeq(s, 2, Len(s))))

\* the digits of s from position i on: <<value, count>>; <<-1, 0>> if a
\* character that is no digit is met
RECURSIVE ParseDigits(_, _, _, _)
ParseDigits(s, i, acc, cnt) ==
    IF i > Len(s) THEN <<acc, cnt>>
    ELSE Let(Find("0123456789", SubSeq(s, i, i), 1) - 1, LAMBDA d :
             IF d < 0 THEN <<-1, 0>>
             ELSE ParseDigits(s, i + 1, acc * 10 + d, cnt + 1))

\* str::parse::<usize>: an optional '+' and at least one digit
parse_usize(s) ==
    LET b == IF Len(s) > 0 /\ SubSeq(s, 1, 1) = "+"
             THEN SubSeq(s, 2, Len(s)) ELSE s
    IN  Let(ParseDigits(b, 1, 0, 0), LAMBDA r :
            IF b = "" \/ r[1] < 0 THEN None ELSE Some(r[1]))

\* str::parse::<f64> on the literals of the number model: an optional sign,
\* then "nan" in any case, or digits with an optional fraction (digits
\* past the second decimal are below the resolution and cut).  Exponents
\* and infinities, which the library also accepts, are outside the number
\* model and are not fed to it.
parse_f64(s) ==
    LET signed == Len(s) > 0 /\ SubSeq(s, 1, 1) \in {"+", "-"}
        neg == signed /\ SubSeq(s, 1, 1) = "-"
        b == IF signed THEN SubSeq(s, 2, Len(s)) ELSE s
    IN  Let(Find(b, ".", 1), LAMBDA dot :
        Let(IF dot = 0 THEN b ELSE SubSeq(b, 1, dot - 1), LAMBDA ip :
        Let(IF dot = 0 THEN "" ELSE SubSeq(b, dot + 1, Len(b)), LAMBDA fp :
        Let(ParseDigits(ip, 1, 0, 0), LAMBDA i :
        Let(ParseDigits(fp, 1, 0, 0), LAMBDA f :
        Let(ParseDigits(SubSeq(fp \o "00", 1, 2), 1, 0, 0), LAMBDA f2 :
            LET mag == i[1] * Unit + f2[1]
            IN  IF to_lowercase(b) = "nan" THEN Some(NaN)
                ELSE IF i[1] < 0 \/ f[1] < 0 \/ i[2] + f[2] = 0 THEN None
                ELSE Some(IF neg THEN -mag ELSE mag)))))))

\* format!("{:.2}", x)
fmt2(x) ==
    IF IsNaN(x) THEN "NaN"
    ELSE LET a == Abs(x)
             c == a % Unit
         IN  (IF x < 0 THEN "-" ELSE "") \o ToString(a \div Unit) \o "."
             \o (IF c < 10 THEN "0" ELSE "") \o ToString(c)

(***************************************************************************)
(* Parameter tables of v2_5.rs, v2_6.rs and v2_7.rs, by version            *)
(***************************************************************************)
Versions == {"2_5", "2_6", "2_7"}

\* INFLATION_RW, in tenths
INFLATION_RW ==
    [v \in Versions |->
        CASE v = "2_5" -> 630
          [] v = "2_6" -> 610
          [] v = "2_7" -> 520]

\* CCY_BASIS_SWAP_SPREAD_RW, in tenths
CCY_BASIS_SWAP_SPREAD_RW ==
    [v \in Versions |->
        CASE v = "2_5" -> 210
          [] v = "2_6" -> 210
          [] v = "2_7" -> 210]

\* SUB_CURVES_CORR, in thousandths
SUB_CURVES_CORR ==
    [v \in Versions |->
        CASE v = "2_5" -> 990
          [] v = "2_6" -> 993
          [] v = "2_7" -> 990]

\* INFLATION_CORR, in thousandths
INFLATION_CORR ==
    [v \in Versions |->
        CASE v = "2_5" -> 370
          [] v = "2_6" -> 240
          [] v = "2_7" -> 260]

\* CCY_BASIS_SPREAD_CORR, in thousandths
CCY_BASIS_SPREAD_CORR ==
    [v \in Versions |->
        CASE v = "2_5" -> 10
          [] v = "2_6" -> 40
          [] v = "2_7" -> -50]

\* IR_GAMMA_DIFF_CCY, in hundredths
IR_GAMMA_DIFF_CCY ==
    [v \in Versions |->
        CASE v = "2_5" -> 24
          [] v = "2_6" -> 32
          [] v = "2_7" -> 30]

\* CREDIT_Q_BASE_CORR_WEIGHT, in tenths
CREDIT_Q_BASE_CORR_WEIGHT ==
    [v \in Versions |->
        CASE v = "2_5" -> 100
          [] v = "2_6" -> 100
          [] v = "2_7" -> 99]

\* CR_GAMMA_DIFF_CCY, in hundredths
CR_GAMMA_DIFF_CCY ==
    [v \in Versions |->
        CASE v = "2_5" -> 40
          [] v = "2_6" -> 43
          [] v = "2_7" -> 51]

\* REG_VOL_RW: (tenor, weight in tenths) pairs
REG_VOL_RW ==
    [v \in Versions |->
        CASE v = "2_5" -> << <<"2w", 1150>>, <<"1m", 1120>>, <<"3m", 960>>, <<"6m", 740>>, <<"1y", 660>>, <<"2y", 610>>, <<"3y", 560>>, <<"5y", 520>>, <<"10y", 530>>, <<"15y", 570>>, <<"20y", 600>>, <<"30y", 660>> >>
          [] v = "2_6" -> << <<"2w", 1090>>, <<"1m", 1050>>, <<"3m", 900>>, <<"6m", 710>>, <<"1y", 660>>, <<"2y", 660>>, <<"3y", 640>>, <<"5y", 600>>, <<"10y", 600>>, <<"15y", 610>>, <<"20y", 610>>, <<"30y", 670>> >>
          [] v = "2_7" -> << <<"2w", 1090>>, <<"1m", 1060>>, <<"3m", 910>>, <<"6m", 690>>, <<"1y", 680>>, <<"2y", 680>>, <<"3y", 660>>, <<"5y", 610>>, <<"10y", 590>>, <<"15y", 560>>, <<"20y", 570>>, <<"30y", 650>> >>]

\* LOW_VOL_RW: (tenor, weight in tenths) pairs
LOW_VOL_RW ==
    [v \in Versions |->
        CASE v = "2_5" -> << <<"2w", 150>>, <<"1m", 180>>, <<"3m", 90>>, <<"6m", 110>>, <<"1y", 130>>, <<"2y", 150>>, <<"3y", 180>>, <<"5y", 200>>, <<"10y", 190>>, <<"15y", 190>>, <<"20y", 200>>, <<"30y", 230>> >>
          [] v = "2_6" -> << <<"2w", 150>>, <<"1m", 180>>, <<"3m", 90>>, <<"6m", 110>>, <<"1y", 130>>, <<"2y", 150>>, <<"3y", 190>>, <<"5y", 230>>, <<"10y", 230>>, <<"15y", 220>>, <<"20y", 220>>, <<"30y", 230>> >>
          [] v = "2_7" -> << <<"2w", 150>>, <<"1m", 210>>, <<"3m", 100>>, <<"6m", 100>>, <<"1y", 110>>, <<"2y", 150>>, <<"3y", 180>>, <<"5y", 230>>, <<"10y", 250>>, <<"15y", 230>>, <<"20y", 230>>, <<"30y", 250>> >>]

\* HIGH_VOL_RW: (tenor, weight in tenths) pairs
HIGH_VOL_RW ==
    [v \in Versions |->
        CASE v = "2_5" -> << <<"2w", 1190>>, <<"1m", 930>>, <<"3m", 800>>, <<"6m", 820>>, <<"1y", 900>>, <<"2y", 920>>, <<"3y", 950>>, <<"5y", 950>>, <<"10y", 940>>, <<"15y", 1080>>, <<"20y", 1050>>, <<"30y", 1010>> >>
          [] v = "2_6" -> << <<"2w", 1630>>, <<"1m", 1090>>, <<"3m", 870>>, <<"6m", 890>>, <<"1y", 1020>>, <<"2y", 960>>, <<"3y", 1010>>, <<"5y", 970>>, <<"10y", 970>>, <<"15y", 1020>>, <<"20y", 1060>>, <<"30y", 1010>> >>
          [] v = "2_7" -> << <<"2w", 1710>>, <<"1m", 1020>>, <<"3m", 940>>, <<"6m", 960>>, <<"1y", 1050>>, <<"2y", 960>>, <<"3y", 990>>, <<"5y", 930>>, <<"10y", 990>>, <<"15y", 1000>>, <<"20y", 1010>>, <<"30y", 960>> >>]

\* CREDIT_Q_RW[i + 1] is the source's CREDIT_Q_RW[i]; tenths
CREDIT_Q_RW ==
    [v \in Versions |->
        CASE v = "2_5" -> << 6650, 750, 910, 780, 550, 670, 470, 1870, 6650, 2620, 2510, 1720, 2470 >>
          [] v = "2_6" -> << 3430, 750, 900, 840, 540, 620, 480, 1850, 3430, 2550, 2500, 2140, 1730 >>
          [] v = "2_7" -> << 3630, 690, 750, 690, 470, 580, 480, 1530, 3630, 1560, 1880, 2990, 1190 >>]

\* CREDIT_Q_CORR[i + 1] is the source's CREDIT_Q_CORR[i]; hundredths
CREDIT_Q_CORR ==
    [v \in Versions |->
        CASE v = "2_5" -> << 93, 42, 50, 24 >>
          [] v = "2_6" -> << 93, 46, 50, 29 >>
          [] v = "2_7" -> << 94, 47, 50, 31 >>]

\* CREDIT_NON_Q_RW[i + 1] is the source's CREDIT_NON_Q_RW[i]; tenths
CREDIT_NON_Q_RW ==
    [v \in Versions |->
        CASE v = "2_5" -> << 13000, 2800, 13000 >>
          [] v = "2_6" -> << 13000, 2800, 13000 >>
          [] v = "2_7" -> << 29000, 2800, 29000 >>]

\* CREDIT_NON_Q_CORR[i + 1] is the source's CREDIT_NON_Q_CORR[i]; hundredths
CREDIT_NON_Q_CORR ==
    [v \in Versions |->
        CASE v = "2_5" -> << 82, 27, 50 >>
          [] v = "2_6" -> << 83, 32, 50 >>
          [] v = "2_7" -> << 85, 29, 50 >>]

\* EQUITY_RW[i + 1] is the source's EQUITY_RW[i]; tenths
EQUITY_RW ==
    [v \in Versions |->
        CASE v = "2_5" -> << 340, 260, 280, 340, 280, 230, 250, 290, 270, 320, 320, 180, 180 >>
          [] v = "2_6" -> << 500, 300, 330, 360, 290, 260, 250, 340, 280, 360, 500, 190, 190 >>
          [] v = "2_7" -> << 390, 270, 300, 310, 270, 230, 240, 260, 270, 330, 390, 150, 150 >>]

\* EQUITY_CORR[i + 1] is the source's EQUITY_CORR[i]; hundredths
EQUITY_CORR ==
    [v \in Versions |->
        CASE v = "2_5" -> << 0, 18, 23, 30, 26, 23, 35, 36, 33, 19, 20, 45, 45 >>
          [] v = "2_6" -> << 0, 18, 20, 28, 24, 25, 36, 35, 37, 23, 27, 45, 45 >>
          [] v = "2_7" -> << 0, 14, 16, 23, 21, 23, 32, 32, 35, 21, 22, 40, 40 >>]

\* COMMODITY_RW[i + 1] is the source's COMMODITY_RW[i]; tenths
COMMODITY_RW ==
    [v \in Versions |->
        CASE v = "2_5" -> << 0, 270, 290, 330, 250, 350, 240, 400, 530, 440, 580, 200, 210, 130, 160, 130, 580, 170 >>
          [] v = "2_6" -> << 0, 480, 290, 330, 250, 350, 300, 600, 520, 680, 630, 210, 210, 150, 160, 130, 680, 170 >>
          [] v = "2_7" -> << 0, 480, 210, 230, 200, 240, 330, 610, 450, 650, 450, 210, 190, 160, 160, 110, 650, 160 >>]

\* COMMODITY_CORR[i + 1] is the source's COMMODITY_CORR[i]; hundredths
COMMODITY_CORR ==
    [v \in Versions |->
        CASE v = "2_5" -> << 0, 84, 98, 96, 97, 98, 88, 98, 49, 80, 46, 55, 46, 66, 18, 21, 0, 36 >>
          [] v = "2_6" -> << 0, 83, 97, 93, 97, 98, 90, 98, 49, 80, 46, 58, 53, 62, 16, 18, 0, 38 >>
          [] v = "2_7" -> << 0, 84, 98, 98, 98, 98, 93, 93, 51, 59, 44, 58, 60, 60, 21, 17, 0, 43 >>]

\* CREDIT_DELTA_CT_QUALIFYING[i + 1] is the source's CREDIT_DELTA_CT_QUALIFYING[i]; units of 10^4 USD (the source gives millions)
CREDIT_DELTA_CT_QUALIFYING ==
    [v \in Versions |->
        CASE v = "2_5" -> << 19, 91, 19, 19, 19, 19, 19, 91, 19, 19, 19, 19, 19 >>
          [] v = "2_6" -> << 17, 100, 17, 17, 17, 17, 17, 100, 17, 17, 17, 17, 17 >>
          [] v = "2_7" -> << 18, 98, 18, 18, 18, 18, 18, 98, 18, 18, 18, 18, 18 >>]

\* CREDIT_DELTA_CT_NON_QUALIFYING[i + 1] is the source's CREDIT_DELTA_CT_NON_QUALIFYING[i]; units of 10^4 USD (the source gives millions)
CREDIT_DELTA_CT_NON_QUALIFYING ==
    [v \in Versions |->
        CASE v = "2_5" -> << 50, 950, 50 >>
          [] v = "2_6" -> << 50, 950, 50 >>
          [] v = "2_7" -> << 18, 330, 18 >>]

\* EQUITY_DELTA_CT[i + 1] is the source's EQUITY_DELTA_CT[i]; units of 10^4 USD (the source gives millions)
EQUITY_DELTA_CT ==
    [v \in Versions |->
        CASE v = "2_5" -> << 60, 1000, 1000, 1000, 1000, 2100, 2100, 2100, 2100, 140, 60, 210000, 210000 >>
          [] v = "2_6" -> << 37, 300, 300, 300, 300, 1200, 1200, 1200, 1200, 64, 37, 81000, 81000 >>
          [] v = "2_7" -> << 30, 250, 250, 250, 250, 1000, 1000, 1000, 1000, 61, 30, 71000, 71000 >>]

\* COMMODITY_DELTA_CT[i + 1] is the source's COMMODITY_DELTA_CT[i]; units of 10^4 USD (the source gives millions)
COMMODITY_DELTA_CT ==
    [v \in Versions |->
        CASE v = "2_5" -> << 5200, 31000, 210000, 170000, 170000, 170000, 320000, 320000, 270000, 270000, 5200, 53000, 160000, 10000, 10000, 10000, 5200, 400000 >>
          [] v = "2_6" -> << 5200, 31000, 210000, 170000, 170000, 170000, 280000, 280000, 270000, 270000, 5200, 53000, 130000, 10000, 10000, 10000, 5200, 400000 >>
          [] v = "2_7" -> << 5200, 31000, 250000, 170000, 170000, 170000, 240000, 240000, 180000, 180000, 5200, 53000, 160000, 10000, 10000, 10000, 5200, 400000 >>]

\* IR_CORR, in hundredths
IR_CORR ==
    [v \in Versions |->
        CASE v = "2_5" -> << <<100, 74, 63, 55, 45, 36, 32, 28, 23, 20, 18, 16>>,
                        <<74, 100, 80, 69, 52, 41, 35, 29, 24, 18, 17, 16>>,
                        <<63, 80, 100, 85, 67, 53, 45, 39, 32, 24, 22, 22>>,
                        <<55, 69, 85, 100, 83, 71, 62, 54, 45, 36, 35, 33>>,
                        <<45, 52, 67, 83, 100, 94, 86, 78, 65, 58, 55, 53>>,
                        <<36, 41, 53, 71, 94, 100, 95, 89, 78, 72, 68, 67>>,
                        <<32, 35, 45, 62, 86, 95, 100, 96, 87, 80, 77, 74>>,
                        <<28, 29, 39, 54, 78, 89, 96, 100, 94, 89, 86, 84>>,
                        <<23, 24, 32, 45, 65, 78, 87, 94, 100, 97, 95, 94>>,
                        <<20, 18, 24, 36, 58, 72, 80, 89, 97, 100, 98, 98>>,
                        <<18, 17, 22, 35, 55, 68, 77, 86, 95, 98, 100, 99>>,
                        <<16, 16, 22, 33, 53, 67, 74, 84, 94, 98, 99, 100>> >>
          [] v = "2_6" -> << <<100, 77, 67, 59, 48, 39, 34, 30, 25, 23, 21, 20>>,
                        <<77, 100, 84, 74, 56, 43, 36, 31, 26, 21, 19, 19>>,
                        <<67, 84, 100, 88, 69, 55, 47, 40, 34, 27, 25, 25>>,
                        <<59, 74, 88, 100, 86, 73, 65, 57, 49, 40, 38, 37>>,
                        <<48, 56, 69, 86, 100, 94, 87, 79, 68, 60, 57, 55>>,
                        <<39, 43, 55, 73, 94, 100, 96, 91, 80, 74, 70, 69>>,
                        <<34, 36, 47, 65, 87, 96, 100, 97, 88, 81, 77, 76>>,
                        <<30, 31, 40, 57, 79, 91, 97, 100, 95, 90, 86, 85>>,
                        <<25, 26, 34, 49, 68, 80, 88, 95, 100, 97, 94, 94>>,
                        <<23, 21, 27, 40, 60, 74, 81, 90, 97, 100, 98, 97>>,
                        <<21, 19, 25, 38, 57, 70, 77, 86, 94, 98, 100, 99>>,
                        <<20, 19, 25, 37, 55, 69, 76, 85, 94, 97, 99, 100>> >>
          [] v = "2_7" -> << <<100, 75, 67, 57, 43, 33, 28, 24, 19, 17, 16, 15>>,
                        <<75, 100, 85, 72, 52, 38, 30, 24, 19, 14, 16, 15>>,
                        <<67, 85, 100, 88, 67, 52, 44, 37, 30, 23, 21, 21>>,
                        <<57, 72, 88, 100, 86, 73, 64, 56, 47, 41, 38, 37>>,
                        <<43, 52, 67, 86, 100, 94, 86, 78, 67, 61, 57, 56>>,
                        <<33, 38, 52, 73, 94, 100, 96, 91, 80, 74, 70, 69>>,
                        <<28, 30, 44, 64, 86, 96, 100, 97, 87, 81, 77, 76>>,
                        <<24, 24, 37, 56, 78, 91, 97, 100, 94, 90, 86, 85>>,
                        <<19, 19, 30, 47, 67, 80, 87, 94, 100, 97, 94, 94>>,
                        <<17, 14, 23, 41, 61, 74, 81, 90, 97, 100, 97, 97>>,
                        <<16, 12, 21, 38, 57, 70, 77, 86, 94, 97, 100, 99>>,
                        <<15, 12, 21, 37, 56, 69, 76, 85, 94, 97, 99, 100>> >>]

\* CREDIT_Q_CORR_NON_RES, in hundredths
CREDIT_Q_CORR_NON_RES ==
    [v \in Versions |->
        CASE v = "2_5" -> << <<100, 36, 38, 35, 37, 33, 36, 31, 32, 33, 32, 30>>,
                        <<36, 100, 46, 44, 45, 43, 33, 36, 38, 39, 40, 36>>,
                        <<38, 46, 100, 49, 49, 47, 34, 36, 41, 42, 43, 39>>,
                        <<35, 44, 49, 100, 48, 48, 31, 34, 38, 42, 41, 37>>,
                        <<37, 45, 49, 48, 100, 48, 33, 35, 39, 42, 43, 38>>,
                        <<33, 43, 47, 48, 48, 100, 29, 32, 36, 39, 40, 35>>,
                        <<36, 33, 34, 31, 33, 29, 100, 28, 32, 31, 30, 28>>,
                        <<31, 36, 36, 34, 35, 32, 28, 100, 33, 34, 33, 30>>,
                        <<32, 38, 41, 38, 39, 36, 32, 33, 100, 38, 36, 34>>,
                        <<33, 39, 42, 42, 42, 39, 31, 34, 38, 100, 38, 36>>,
                        <<32, 40, 43, 41, 43, 40, 30, 33, 36, 38, 100, 35>>,
                        <<30, 36, 39, 37, 38, 35, 28, 30, 34, 36, 35, 100>> >>
          [] v = "2_6" -> << <<100, 38, 38, 35, 37, 34, 42, 32, 34, 33, 34, 33>>,
                        <<38, 100, 48, 46, 48, 46, 39, 40, 41, 41, 43, 40>>,
                        <<38, 48, 100, 50, 51, 50, 40, 39, 45, 44, 47, 42>>,
                        <<35, 46, 50, 100, 50, 50, 37, 37, 41, 43, 45, 40>>,
                        <<37, 48, 51, 50, 100, 50, 39, 38, 43, 43, 46, 42>>,
                        <<34, 46, 50, 50, 50, 100, 37, 35, 39, 41, 44, 41>>,
                        <<42, 39, 40, 37, 39, 37, 100, 33, 37, 37, 35, 35>>,
                        <<32, 40, 39, 37, 38, 35, 33, 100, 36, 37, 37, 36>>,
                        <<34, 41, 45, 41, 43, 39, 37, 36, 100, 41, 40, 38>>,
                        <<33, 41, 44, 43, 43, 41, 37, 37, 41, 100, 41, 39>>,
                        <<34, 43, 47, 45, 46, 44, 35, 37, 40, 41, 100, 40>>,
                        <<33, 40, 42, 40, 42, 41, 35, 36, 38, 39, 40, 100>> >>
          [] v = "2_7" -> << <<100, 41, 39, 35, 38, 36, 43, 29, 36, 36, 36, 37>>,
                        <<41, 100, 48, 45, 48, 45, 40, 35, 43, 43, 42, 44>>,
                        <<39, 48, 100, 49, 50, 50, 41, 32, 46, 45, 43, 48>>,
                        <<35, 45, 49, 100, 50, 49, 38, 30, 42, 44, 41, 47>>,
                        <<38, 48, 50, 50, 100, 51, 40, 31, 44, 45, 43, 49>>,
                        <<36, 45, 50, 49, 51, 100, 39, 29, 42, 43, 41, 49>>,
                        <<43, 40, 41, 38, 40, 39, 100, 28, 37, 38, 37, 39>>,
                        <<29, 35, 32, 30, 31, 29, 28, 100, 30, 30, 29, 31>>,
                        <<36, 43, 46, 42, 44, 42, 37, 30, 100, 42, 40, 44>>,
                        <<36, 43, 45, 44, 45, 43, 38, 30, 42, 100, 40, 45>>,
                        <<36, 42, 43, 41, 43, 41, 37, 29, 40, 40, 100, 42>>,
                        <<37, 44, 48, 47, 49, 49, 39, 31, 44, 45, 42, 100>> >>]

\* EQUITY_CORR_NON_RES, in hundredths
EQUITY_CORR_NON_RES ==
    [v \in Versions |->
        CASE v = "2_5" -> << <<100, 20, 20, 20, 13, 16, 16, 16, 17, 12, 18, 18>>,
                        <<20, 100, 25, 23, 14, 17, 18, 17, 19, 13, 19, 19>>,
                        <<20, 25, 100, 24, 13, 17, 18, 16, 20, 13, 18, 18>>,
                        <<20, 23, 24, 100, 17, 22, 22, 22, 21, 16, 24, 24>>,
                        <<13, 14, 13, 17, 100, 27, 26, 27, 15, 20, 30, 30>>,
                        <<16, 17, 17, 22, 27, 100, 34, 33, 18, 24, 38, 38>>,
                        <<16, 18, 18, 22, 26, 34, 100, 32, 18, 24, 37, 37>>,
                        <<16, 17, 16, 22, 27, 33, 32, 100, 18, 23, 37, 37>>,
                        <<17, 19, 20, 21, 15, 18, 18, 18, 100, 14, 20, 20>>,
                        <<12, 13, 13, 16, 20, 24, 24, 23, 14, 100, 25, 25>>,
                        <<18, 19, 18, 24, 30, 38, 37, 37, 20, 25, 100, 45>>,
                        <<18, 19, 18, 24, 30, 38, 37, 37, 20, 25, 45, 100>> >>
          [] v = "2_6" -> << <<100, 18, 19, 19, 14, 16, 15, 16, 18, 12, 19, 19>>,
                        <<18, 100, 22, 21, 15, 18, 17, 19, 20, 14, 21, 21>>,
                        <<19, 22, 100, 22, 13, 16, 18, 17, 22, 13, 20, 20>>,
                        <<19, 21, 22, 100, 17, 22, 22, 23, 22, 17, 26, 26>>,
                        <<14, 15, 13, 17, 100, 29, 26, 29, 14, 24, 32, 32>>,
                        <<16, 18, 16, 22, 29, 100, 34, 36, 17, 30, 39, 39>>,
                        <<15, 17, 18, 22, 26, 34, 100, 33, 16, 28, 36, 36>>,
                        <<16, 19, 17, 23, 29, 36, 33, 100, 17, 29, 40, 40>>,
                        <<18, 20, 22, 22, 14, 17, 16, 17, 100, 13, 21, 21>>,
                        <<12, 14, 13, 17, 24, 30, 28, 29, 13, 100, 30, 30>>,
                        <<19, 21, 20, 26, 32, 39, 36, 40, 21, 30, 100, 45>>,
                        <<19, 21, 20, 26, 32, 39, 36, 40, 21, 30, 45, 100>> >>
          [] v = "2_7" -> << <<100, 14, 15, 16, 13, 15, 14, 15, 14, 12, 17, 17>>,
                        <<14, 100, 18, 18, 14, 17, 17, 18, 16, 14, 19, 19>>,
                        <<15, 18, 100, 19, 14, 18, 21, 19, 18, 14, 21, 21>>,
                        <<16, 18, 19, 100, 17, 22, 21, 23, 18, 17, 24, 24>>,
                        <<13, 14, 14, 17, 100, 25, 23, 26, 13, 20, 28, 28>>,
                        <<15, 17, 18, 22, 25, 100, 29, 33, 16, 26, 34, 34>>,
                        <<14, 17, 21, 21, 23, 29, 100, 30, 15, 24, 33, 33>>,
                        <<15, 18, 19, 23, 26, 33, 30, 100, 16, 26, 37, 37>>,
                        <<14, 16, 18, 18, 13, 16, 15, 16, 100, 12, 19, 19>>,
                        <<12, 14, 14, 17, 20, 26, 24, 26, 12, 100, 26, 26>>,
                        <<17, 19, 21, 24, 28, 34, 33, 37, 19, 26, 100, 40>>,
                        <<17, 19, 21, 24, 28, 34, 33, 37, 19, 26, 40, 100>> >>]

\* COMMODITY_CORR_NON_RES, in hundredths
COMMODITY_CORR_NON_RES ==
    [v \in Versions |->
        CASE v = "2_5" -> << <<100, 33, 21, 27, 29, 21, 48, 16, 41, 23, 18, 2, 21, 19, 15, 0, 24>>,
                        <<33, 100, 94, 94, 89, 21, 19, 13, 21, 21, 41, 27, 31, 29, 21, 0, 60>>,
                        <<21, 94, 100, 91, 85, 12, 20, 9, 19, 20, 36, 18, 22, 23, 23, 0, 54>>,
                        <<27, 94, 91, 100, 84, 14, 24, 13, 21, 19, 39, 25, 23, 27, 18, 0, 59>>,
                        <<29, 89, 85, 84, 100, 15, 17, 9, 16, 21, 38, 28, 28, 27, 18, 0, 55>>,
                        <<21, 21, 12, 14, 15, 100, 33, 53, 26, 9, 21, 4, 11, 10, 9, 0, 24>>,
                        <<48, 19, 20, 24, 17, 33, 100, 31, 72, 24, 14, -12, 19, 14, 8, 0, 24>>,
                        <<16, 13, 9, 13, 9, 53, 31, 100, 24, 4, 13, -7, 4, 6, 1, 0, 16>>,
                        <<41, 21, 19, 21, 16, 26, 72, 24, 100, 21, 18, -7, 12, 12, 10, 0, 21>>,
                        <<23, 21, 20, 19, 21, 9, 24, 4, 21, 100, 14, 11, 11, 10, 7, 0, 14>>,
                        <<18, 41, 36, 39, 38, 21, 14, 13, 18, 14, 100, 28, 30, 25, 18, 0, 38>>,
                        <<2, 27, 18, 25, 28, 4, -12, -7, -7, 11, 28, 100, 18, 18, 8, 0, 21>>,
                        <<21, 31, 22, 23, 28, 11, 19, 4, 12, 11, 30, 18, 100, 34, 16, 0, 34>>,
                        <<19, 29, 23, 27, 27, 10, 14, 6, 12, 10, 25, 18, 34, 100, 13, 0, 26>>,
                        <<15, 21, 23, 18, 18, 9, 8, 1, 10, 7, 18, 8, 16, 13, 100, 0, 21>>,
                        <<0, 0, 0, 0, 0, 0, 0, 0, 0, 0, 0, 0, 0, 0, 0, 100, 0>>,
                        <<24, 60, 54, 59, 55, 24, 24, 16, 21, 14, 38, 21, 34, 26, 21, 0, 100>> >>
          [] v = "2_6" -> << <<100, 22, 18, 21, 20, 24, 49, 16, 38, 14, 10, 2, 12, 11, 2, 0, 17>>,
                        <<22, 100, 92, 90, 88, 25, 8, 19, 17, 17, 42, 28, 36, 27, 20, 0, 64>>,
                        <<18, 92, 100, 87, 84, 16, 7, 15, 10, 18, 33, 22, 27, 23, 16, 0, 54>>,
                        <<21, 90, 87, 100, 77, 19, 11, 18, 16, 14, 32, 22, 28, 22, 11, 0, 58>>,
                        <<20, 88, 84, 77, 100, 19, 9, 12, 13, 18, 42, 34, 32, 29, 13, 0, 59>>,
                        <<24, 25, 16, 19, 19, 100, 31, 62, 23, 10, 21, 5, 18, 10, 8, 0, 28>>,
                        <<49, 8, 7, 11, 9, 31, 100, 21, 79, 17, 10, -8, 10, 7, -2, 0, 13>>,
                        <<16, 19, 15, 18, 12, 62, 21, 100, 16, 8, 13, -7, 7, 5, 2, 0, 19>>,
                        <<38, 17, 10, 16, 13, 23, 79, 16, 100, 15, 9, -6, 6, 6, 1, 0, 16>>,
                        <<14, 17, 18, 14, 18, 10, 17, 8, 15, 100, 16, 9, 14, 9, 3, 0, 11>>,
                        <<10, 42, 33, 32, 42, 21, 10, 13, 9, 16, 100, 36, 30, 25, 18, 0, 37>>,
                        <<2, 28, 22, 22, 34, 5, -8, -7, -6, 9, 36, 100, 20, 18, 11, 0, 26>>,
                        <<12, 36, 27, 28, 32, 18, 10, 7, 6, 14, 30, 20, 100, 28, 19, 0, 39>>,
                        <<11, 27, 23, 22, 29, 10, 7, 5, 6, 9, 25, 18, 28, 100, 13, 0, 26>>,
                        <<2, 20, 16, 11, 13, 8, -2, 2, 1, 3, 18, 11, 19, 13, 100, 0, 21>>,
                        <<0, 0, 0, 0, 0, 0, 0, 0, 0, 0, 0, 0, 0, 0, 0, 100, 0>>,
                        <<17, 64, 54, 58, 59, 28, 13, 19, 16, 11, 37, 26, 39, 26, 21, 0, 100>> >>
          [] v = "2_7" -> << <<100, 23, 19, 28, 24, 32, 62, 29, 50, 15, 13, 8, 19, 12, 4, 0, 22>>,
                        <<23, 100, 94, 92, 89, 36, 15, 23, 15, 20, 42, 31, 38, 28, 16, 0, 67>>,
                        <<19, 94, 100, 91, 86, 32, 11, 19, 12, 22, 41, 31, 37, 25, 15, 0, 64>>,
                        <<28, 92, 91, 100, 81, 40, 17, 26, 18, 20, 41, 26, 34, 25, 14, 0, 64>>,
                        <<24, 89, 86, 81, 100, 29, 17, 26, 23, 26, 42, 34, 23, 32, 14, 0, 62>>,
                        <<32, 36, 32, 40, 29, 100, 30, 66, 23, 7, 12, 7, 23, 9, 11, 0, 39>>,
                        <<62, 15, 11, 17, 17, 30, 100, 19, 78, 12, 12, 2, 11, 7, 0, 0, 21>>,
                        <<29, 23, 19, 26, 21, 66, 19, 100, 19, 4, 10, -1, 11, 4, 3, 0, 21>>,
                        <<50, 15, 12, 18, 23, 23, 78, 19, 100, 7, 6, -8, 13, 12, 10, 0, 18>>,
                        <<15, 20, 22, 20, 26, 7, 12, 4, 7, 100, 19, 10, 13, 10, 10, 0, 12>>,
                        <<13, 42, 41, 41, 42, 21, 12, 10, 6, 19, 100, 39, 31, 24, 14, 0, 39>>,
                        <<8, 31, 31, 26, 34, 7, 2, -1, -8, 10, 39, 100, 22, 20, 12, 0, 28>>,
                        <<19, 38, 37, 34, 23, 19, 11, 11, 13, 13, 31, 22, 100, 28, 19, 0, 41>>,
                        <<12, 28, 25, 27, 32, 9, 7, 4, 12, 10, 24, 20, 28, 100, 9, 0, 22>>,
                        <<4, 16, 15, 14, 14, 11, 0, 3, 10, 10, 14, 12, 19, 9, 100, 0, 21>>,
                        <<0, 0, 0, 0, 0, 0, 0, 0, 0, 0, 0, 0, 0, 0, 0, 100, 0>>,
                        <<22, 67, 64, 64, 62, 39, 21, 21, 18, 12, 39, 28, 41, 22, 21, 0, 100>> >>]

\* CORR_PARAMS, in hundredths
CORR_PARAMS ==
    [v \in Versions |->
        CASE v = "2_5" -> << <<100, 29, 13, 28, 46, 32>>,
                        <<29, 100, 54, 71, 52, 38>>,
                        <<13, 54, 100, 46, 41, 12>>,
                        <<28, 71, 46, 100, 49, 35>>,
                        <<46, 52, 41, 49, 100, 41>>,
                        <<32, 38, 12, 35, 41, 100>> >>
          [] v = "2_6" -> << <<100, 4, 4, 7, 37, 14>>,
                        <<4, 100, 54, 70, 27, 37>>,
                        <<4, 54, 100, 46, 24, 15>>,
                        <<7, 70, 46, 100, 35, 39>>,
                        <<37, 27, 24, 35, 100, 35>>,
                        <<14, 37, 15, 39, 35, 100>> >>
          [] v = "2_7" -> << <<100, 15, 9, 8, 33, 9>>,
                        <<15, 100, 52, 67, 23, 20>>,
                        <<9, 52, 100, 36, 16, 12>>,
                        <<8, 67, 36, 100, 34, 24>>,
                        <<33, 23, 16, 34, 100, 28>>,
                        <<9, 20, 12, 24, 28, 100>> >>]

\* FX_REG_VOL_CORR, in hundredths
FX_REG_VOL_CORR ==
    [v \in Versions |->
        CASE v = "2_5" -> << <<50, 27>>,
                        <<27, 42>> >>
          [] v = "2_6" -> << <<50, 25>>,
                        <<25, -5>> >>
          [] v = "2_7" -> << <<50, 17>>,
                        <<17, -41>> >>]

\* FX_HIGH_VOL_CORR, in hundredths
FX_HIGH_VOL_CORR ==
    [v \in Versions |->
        CASE v = "2_5" -> << <<85, 54>>,
                        <<54, 50>> >>
          [] v = "2_6" -> << <<88, 72>>,
                        <<72, 50>> >>
          [] v = "2_7" -> << <<94, 84>>,
                        <<84, 50>> >>]

REG_VOL_CCY_BUCKET ==
    [v \in Versions |->
        CASE v = "2_5" -> { "USD", "EUR", "GBP", "CHF", "AUD", "NZD", "CAD", "SEK", "NOK", "DKK", "HKD", "KRW", "SGD", "TWD" }
          [] v = "2_6" -> { "USD", "EUR", "GBP", "CHF", "AUD", "NZD", "CAD", "SEK", "NOK", "DKK", "HKD", "KRW", "SGD", "TWD" }
          [] v = "2_7" -> { "USD", "EUR", "GBP", "CHF", "AUD", "NZD", "CAD", "SEK", "NOK", "DKK", "HKD", "KRW", "SGD", "TWD" }]

LOW_VOL_CCY_BUCKET ==
    [v \in Versions |->
        CASE v = "2_5" -> { "JPY" }
          [] v = "2_6" -> { "JPY" }
          [] v = "2_7" -> { "JPY" }]

HIGH_VOL_CURRENCY_GROUP ==
    [v \in Versions |->
        CASE v = "2_5" -> { "BRL", "RUB", "TRY", "ZAR" }
          [] v = "2_6" -> { "BRL", "RUB", "TRY" }
          [] v = "2_7" -> { "ARS", "RUB", "TRY" }]

FX_CATEGORY1 ==
    [v \in Versions |->
        CASE v = "2_5" -> { "USD", "EUR", "JPY", "GBP", "AUD", "CHF", "CAD" }
          [] v = "2_6" -> { "USD", "EUR", "JPY", "GBP", "AUD", "CHF", "CAD" }
          [] v = "2_7" -> { "USD", "EUR", "JPY", "GBP", "AUD", "CHF", "CAD" }]

FX_CATEGORY2 ==
    [v \in Versions |->
        CASE v = "2_5" -> { "BRL", "CNY", "HKD", "INR", "KRW", "MXN", "NOK", "NZD", "RUB", "SEK", "SGD", "TRY", "ZAR" }
          [] v = "2_6" -> { "BRL", "CNY", "HKD", "INR", "KRW", "MXN", "NOK", "NZD", "RUB", "SEK", "SGD", "TRY", "ZAR" }
          [] v = "2_7" -> { "BRL", "CNY", "HKD", "INR", "KRW", "MXN", "NOK", "NZD", "RUB", "SEK", "SGD", "TRY", "ZAR" }]

\* a weight table that depends on the order of its two levels
fx_rw_table_asymmetric ==
    [v \in Versions |-> << <<74, 136>>, <<146, 146>> >>]

\* fx_rw as a table [outer][inner], 1 = Regular, 2 = High; tenths
fx_rw_table ==
    [v \in Versions |->
        CASE v = "2_5" -> << <<74, 136>>, <<136, 146>> >>
          [] v = "2_6" -> << <<74, 147>>, <<147, 214>> >>
          [] v = "2_7" -> << <<73, 214>>, <<214, 359>> >>]

\* Currency::ir_delta_ct by arm: well-traded, less well-traded, low volatility, others; 10^4 USD
ir_delta_ct_table ==
    [v \in Versions |->
        CASE v = "2_5" -> << 23000, 4400, 7000, 3300 >>
          [] v = "2_6" -> << 33000, 13000, 6100, 3000 >>
          [] v = "2_7" -> << 34000, 6100, 15000, 2900 >>]

\* FxCategory::delta_ct by arm: Category1, Category2, Others; 10^4 USD
fx_delta_ct_table ==
    [v \in Versions |->
        CASE v = "2_5" -> << 510000, 120000, 19000 >>
          [] v = "2_6" -> << 330000, 88000, 17000 >>
          [] v = "2_7" -> << 200000, 63000, 12000 >>]


(***************************************************************************)
(* constants.rs                                                            *)
(***************************************************************************)
SIMM_TENOR_LIST ==
    <<"2w", "1m", "3m", "6m", "1y", "2y", "3y", "5y", "10y", "15y", "20y", "30y">>

LIST_RATES ==
    {"Risk_IRCurve", "Risk_Inflation", "Risk_XCcyBasis", "Risk_IRVol",
     "Risk_InflationVol"}
LIST_FX == {"Risk_FX", "Risk_FXVol"}
LIST_CREDIT_Q == {"Risk_CreditQ", "Risk_CreditVol", "Risk_BaseCorr"}
LIST_CREDIT_NON_Q == {"Risk_CreditNonQ", "Risk_CreditVolNonQ"}
LIST_EQUITY == {"Risk_Equity", "Risk_EquityVol"}
LIST_COMMODITY == {"Risk_Commodity", "Risk_CommodityVol"}

\* the six risk classes, in the order of simm_product's risk_class_list
RiskClasses == <<"Rates", "FX", "CreditQ", "CreditNonQ", "Equity", "Commodity">>

\* margin_by_risk_class, with BaseCorr already removed outside CreditQ as
\* simm_risk_class does
Measures(risk_class) ==
    IF risk_class = "CreditQ" THEN <<"Delta", "Vega", "Curvature", "BaseCorr">>
    ELSE <<"Delta", "Vega", "Curvature">>

(***************************************************************************)
(* simm_utils.rs and the row helpers of margin_risk_class.rs.  A CRIF is a *)
(* sequence of rows of strings whose first row is the header; column       *)
(* indices are 1-based here.                                               *)
(***************************************************************************)
get_column_index(crif, column_name) ==
    IF crif = <<>> THEN None ELSE position(crif[1], column_name, 1)

get_column_values(crif, column_name) ==
    Let(get_column_index(crif, column_name), LAMBDA idx :
        IF idx = None THEN <<>>
        ELSE collect([r \in 1..(Len(crif) - 1) |->
                IF idx[1] <= Len(crif[r + 1]) THEN Some(crif[r + 1][idx[1]])
                ELSE None]))

\* keep the first occurrence of every value
RECURSIVE unique_list(_)
unique_list(values) ==
    IF values = <<>> THEN <<>>
    ELSE Let(unique_list(SubSeq(values, 1, Len(values) - 1)), LAMBDA init :
             IF contains(init, values[Len(values)]) THEN init
             ELSE Append(init, values[Len(values)]))

\* max(1, sqrt(|sum_s| / t)) in thousandths; sum_s in cents, t a natural
\* number of USD; f64::max drops a NaN operand
concentration_threshold(sum_s, t) ==
    IF IsNaN(sum_s) THEN CRScale
    ELSE Max(CRScale, BSqrtDiv(BMul(BFromNat(Abs(sum_s)), <<0, 1>>), t))

RECURSIVE SumParsed(_)
SumParsed(vals) ==
    IF vals = <<>> THEN 0
    ELSE Let(IF vals[1] = None \/ vals[1] = Some("") THEN None
             ELSE parse_f64(vals[1][1]), LAMBDA num :
             IF num = None THEN SumParsed(Tail(vals))
             ELSE FAdd(num[1], SumParsed(Tail(vals))))

sum_sensitivities(crif) == SumParsed(get_column_values(crif, "AmountUSD"))

tenor_list(crif) ==
    Let(SelectSeq(get_column_values(crif, "Label1"),
                  LAMBDA x : x # None /\ contains(SIMM_TENOR_LIST, to_lowercase(x[1]))),
        LAMBDA kept :
        unique_list(collect([i \in 1..Len(kept) |-> to_lowercase(kept[i][1])])))

unique_column_values(crif, column_name) ==
    Let(SelectSeq(get_column_values(crif, column_name),
                  LAMBDA x : x # None /\ x[1] # "" /\ x[1] # "nan"),
        LAMBDA kept :
        unique_list(collect([i \in 1..Len(kept) |-> kept[i][1]])))

\* str::replace(c, ""): s without the character c
RECURSIVE Without(_, _)
Without(s, c) ==
    IF s = "" THEN ""
    ELSE (IF SubSeq(s, 1, 1) = c THEN "" ELSE SubSeq(s, 1, 1))
         \o Without(SubSeq(s, 2, Len(s)), c)

\* the results of scaling_func are in millionths
ScalingScale == 1000000

\* 0.5 * min(1, 14 / t_days) for t_days = days * count / 100 and
\* perYear = 365 / days periods in a year: num = 0.5 * 14 * perYear * 100 *
\* ScalingScale / 5 and 365 / 5 = 73.  A count of zero gives 14 / 0 = inf,
\* a NaN count a NaN that min passes over
ScalingOf(num, count) ==
    IF IsNaN(count) \/ count = 0 THEN ScalingScale \div 2
    ELSE IF count < 0 THEN -(num \div (73 * (-count)))
    ELSE Min(ScalingScale \div 2, num \div (73 * count))

scaling_func(t) ==
    Let(to_lowercase(t), LAMBDA t_lower :
        IF t_lower = "2w" THEN ScalingScale \div 2
        ELSE IF Find(t_lower, "m", 1) # 0
        THEN Let(parse_f64(Without(t_lower, "m")), LAMBDA months :
                 IF months # None THEN ScalingOf(1680000000, months[1])
                 ELSE ScalingScale \div 2)
        ELSE IF Find(t_lower, "y", 1) # 0
        THEN Let(parse_f64(Without(t_lower, "y")), LAMBDA years :
                 IF years # None THEN ScalingOf(140000000, years[1])
                 ELSE ScalingScale \div 2)
        ELSE ScalingScale \div 2)

\* char::len_utf8 of the character c: the characters outside ASCII that the
\* inputs use take two bytes, the euro sign three
len_utf8(c) ==
    IF c = "€" THEN 3
    ELSE IF Find("éèüöäñç", c, 1) # 0 THEN 2
    ELSE 1

\* str::len: the length of s in bytes
RECURSIVE str_len(_)
str_len(s) ==
    IF s = "" THEN 0 ELSE len_utf8(SubSeq(s, 1, 1)) + str_len(SubSeq(s, 2, Len(s)))

\* the position of the character of s that starts at byte index, Len(s) + 1
\* for the end of s, 0 when index is inside a character or past the end
RECURSIVE CharAtByte(_, _, _, _)
CharAtByte(s, index, i, offset) ==
    IF offset = index THEN i
    ELSE IF offset > index \/ i > Len(s) THEN 0
    ELSE CharAtByte(s, index, i + 1, offset + len_utf8(SubSeq(s, i, i)))

\* str::is_char_boundary
is_char_boundary(s, index) == CharAtByte(s, index, 1, 0) # 0

\* &s[begin..end], for begin and end on character boundaries
str_slice(s, begin, end) ==
    SubSeq(s, CharAtByte(s, begin, 1, 0), CharAtByte(s, end, 1, 0) - 1)

\* the qualifiers the loop of currency_pair_list slices
IsPairText(x) == x # None /\ x[1] # "" /\ x[1] # "nan" /\ str_len(x[1]) = 6

\* &val[3..6] panics on a qualifier whose byte 3 is inside a character
SlicePanics(vals) ==
    \E i \in 1..Len(vals) : IsPairText(vals[i]) /\ ~is_char_boundary(vals[i][1], 3)

\* qualifiers of six bytes, a pair kept unless its reverse was kept before
\* it
RECURSIVE KeepPairs(_, _)
KeepPairs(vals, currency_pairs) ==
    IF vals = <<>> THEN currency_pairs
    ELSE KeepPairs(Tail(vals),
             IF /\ IsPairText(vals[1])
                /\ ~contains(currency_pairs,
                             str_slice(vals[1][1], 3, 6) \o str_slice(vals[1][1], 0, 3))
             THEN Append(currency_pairs, vals[1][1])
             ELSE currency_pairs)

\* the pairs kept, without repetitions; Unwound when a slice panics
currency_pair_list(crif) ==
    Let(get_column_values(crif, "Qualifier"), LAMBDA qualifier_values :
        IF SlicePanics(qualifier_values) THEN Unwound
        ELSE unique_list(KeepPairs(qualifier_values, <<>>)))

product_list(crif) == unique_column_values(crif, "ProductClass")

\* bucket_list without `if has_residual { buckets.push(0); }`: the variant
\* that forgets the Residual bucket
bucket_list_residual_forgotten(crif) ==
    Let(get_column_values(crif, "Bucket"), LAMBDA vals :
    Let(SelectSeq(vals, LAMBDA x : /\ x # None
                                   /\ x[1] \notin {"Residual", "", "nan"}
                                   /\ parse_usize(x[1]) # None),
        LAMBDA kept :
        unique_list(collect([i \in 1..Len(kept) |-> parse_usize(kept[i][1])[1]]))))

bucket_list(crif) ==
    Let(get_column_values(crif, "Bucket"), LAMBDA vals :
    Let(SelectSeq(vals, LAMBDA x : /\ x # None
                                   /\ x[1] \notin {"Residual", "", "nan"}
                                   /\ parse_usize(x[1]) # None),
        LAMBDA kept :
    Let(collect([i \in 1..Len(kept) |-> parse_usize(kept[i][1])[1]]), LAMBDA buckets :
        LET has_residual == \E i \in 1..Len(vals) : vals[i] = Some("Residual")
        IN  unique_list(IF has_residual THEN Append(buckets, 0) ELSE buckets))))

\* filter_rows with `matches` set by any condition instead of cleared by
\* any: the variant that keeps the rows meeting one of the conditions
filter_rows_any(crif, conditions) ==
    IF Len(crif) <= 1 THEN (IF crif # <<>> THEN <<crif[1]>> ELSE <<>>)
    ELSE <<crif[1]>> \o SelectSeq(Tail(crif), LAMBDA row :
             \E c \in 1..Len(conditions) :
                 Let(get_column_index(crif, conditions[c][1]), LAMBDA idx :
                     /\ idx # None
                     /\ idx[1] <= Len(row)
                     /\ contains(conditions[c][2], row[idx[1]])))

\* conditions: a sequence of <<column, accepted values>> pairs
filter_rows(crif, conditions) ==
    IF Len(crif) <= 1 THEN (IF crif # <<>> THEN <<crif[1]>> ELSE <<>>)
    ELSE <<crif[1]>> \o SelectSeq(Tail(crif), LAMBDA row :
             \A c \in 1..Len(conditions) :
                 Let(get_column_index(crif, conditions[c][1]), LAMBDA idx :
                     /\ idx # None
                     /\ idx[1] <= Len(row)
                     /\ contains(conditions[c][2], row[idx[1]])))

\* conditions: a sequence of <<column, value>> pairs; rows matching ALL go
drop_rows(crif, conditions) ==
    IF Len(crif) <= 1 THEN (IF crif # <<>> THEN <<crif[1]>> ELSE <<>>)
    ELSE <<crif[1]>> \o SelectSeq(Tail(crif), LAMBDA row :
             ~ \A c \in 1..Len(conditions) :
                 Let(get_column_index(crif, conditions[c][1]), LAMBDA idx :
                     /\ idx # None
                     /\ idx[1] <= Len(row)
                     /\ row[idx[1]] = conditions[c][2]))


(***************************************************************************)
(* The WeightsAndCorr providers V2_5, V2_6, V2_7 (one implementation text, *)
(* each over the tables of its own file); wnc is the provider's version    *)
(***************************************************************************)
\* slice::get with the source's 0-based index
get(arr, idx) == IF idx + 1 <= Len(arr) THEN Some(arr[idx + 1]) ELSE None

\* "Residual" is index 0, anything else has to parse as usize
bucket_idx(bucket) == IF bucket = "Residual" THEN Some(0) ELSE parse_usize(bucket)

BUCKET_LIST(n) == collect([i \in 1..n |-> ToString(i)])

\* matrix_lookup_12 / _17 / _6: panics on a label that is not listed
matrix_lookup(data, row_labels, col_labels, row_key, col_key) ==
    Let(position(row_labels, row_key, 1), LAMBDA i :
    Let(position(col_labels, col_key, 1), LAMBDA j :
        IF i = None \/ j = None THEN Panic ELSE data[i[1]][j[1]]))

wnc_rw(wnc, risk_class, bucket) ==
    Let(bucket_idx(bucket), LAMBDA b :
        IF b = None THEN None
        ELSE IF risk_class \in LIST_CREDIT_Q THEN get(CREDIT_Q_RW[wnc], b[1])
        ELSE IF risk_class \in LIST_CREDIT_NON_Q
             THEN get(CREDIT_NON_Q_RW[wnc], b[1])
        ELSE IF risk_class \in LIST_EQUITY THEN get(EQUITY_RW[wnc], b[1])
        ELSE IF risk_class \in LIST_COMMODITY THEN get(COMMODITY_RW[wnc], b[1])
        ELSE None)

\* bucket is an Option<&str>
wnc_rho(wnc, risk_class, index1, index2, bucket) ==
    Let(IF bucket = None THEN None ELSE bucket_idx(bucket[1]), LAMBDA b :
        IF risk_class \in LIST_RATES
        THEN Some(matrix_lookup(IR_CORR[wnc], SIMM_TENOR_LIST, SIMM_TENOR_LIST,
                                index1, index2))
        ELSE IF risk_class \in LIST_CREDIT_Q
        THEN IF risk_class = "Risk_BaseCorr" THEN Some(CREDIT_Q_CORR[wnc][4])
             ELSE IF index1 = "Res" \/ index2 = "Res"
                  THEN Some(CREDIT_Q_CORR[wnc][3])
             ELSE IF index1 = index2 THEN Some(CREDIT_Q_CORR[wnc][1])
             ELSE Some(CREDIT_Q_CORR[wnc][2])
        ELSE IF risk_class \in LIST_CREDIT_NON_Q
        THEN IF index1 = "Res" \/ index2 = "Res"
             THEN Some(CREDIT_NON_Q_CORR[wnc][3])
             ELSE IF index1 = index2 THEN Some(CREDIT_NON_Q_CORR[wnc][1])
             ELSE Some(CREDIT_NON_Q_CORR[wnc][2])
        ELSE IF risk_class \in LIST_EQUITY
        THEN IF b = None THEN None ELSE get(EQUITY_CORR[wnc], b[1])
        ELSE IF risk_class \in LIST_COMMODITY
        THEN IF b = None THEN None ELSE get(COMMODITY_CORR[wnc], b[1])
        ELSE None)

wnc_gamma(wnc, risk_class, bucket1, bucket2) ==
    IF risk_class \in LIST_CREDIT_Q
    THEN Some(matrix_lookup(CREDIT_Q_CORR_NON_RES[wnc], BUCKET_LIST(12),
                            BUCKET_LIST(12), bucket1, bucket2))
    ELSE IF risk_class \in LIST_CREDIT_NON_Q THEN Some(CR_GAMMA_DIFF_CCY[wnc])
    ELSE IF risk_class \in LIST_EQUITY
    THEN Some(matrix_lookup(EQUITY_CORR_NON_RES[wnc], BUCKET_LIST(12),
                            BUCKET_LIST(12), bucket1, bucket2))
    ELSE IF risk_class \in LIST_COMMODITY
    THEN Some(matrix_lookup(COMMODITY_CORR_NON_RES[wnc], BUCKET_LIST(17),
                            BUCKET_LIST(17), bucket1, bucket2))
    ELSE None

\* ct as f64 * 1_000_000.0, for a threshold ct kept in units of 10^4 USD:
\* the threshold as a natural number of USD
Millions(ct) == BMul(BFromNat(ct), <<0, 1>>)

\* Currency::from_str(ccy).ir_delta_ct()
ir_delta_ct(wnc, ccy) ==
    IF ccy \in {"USD", "EUR", "GBP"} THEN ir_delta_ct_table[wnc][1]
    ELSE IF ccy \in {"AUD", "CAD", "CHF", "DKK", "HKD", "KRW", "NOK", "NZD",
                     "SEK", "SGD", "TWD"} THEN ir_delta_ct_table[wnc][2]
    ELSE IF ccy = "JPY" THEN ir_delta_ct_table[wnc][3]
    ELSE ir_delta_ct_table[wnc][4]

\* FxCategory::from_currency(ccy).delta_ct()
fx_delta_ct(wnc, ccy) ==
    IF ccy \in FX_CATEGORY1[wnc] THEN fx_delta_ct_table[wnc][1]
    ELSE IF ccy \in FX_CATEGORY2[wnc] THEN fx_delta_ct_table[wnc][2]
    ELSE fx_delta_ct_table[wnc][3]

\* Currency::from_str(ccy).ir_vega_ct(); 10^4 USD
ir_vega_ct(wnc, ccy) ==
    Let(CASE wnc = "2_5" -> << 330000, 47000, 57000, 12000 >>
          [] wnc = "2_6" -> << 490000, 52000, 97000, 7400 >>
          [] wnc = "2_7" -> << 490000, 55000, 89000, 7600 >>,
        LAMBDA ct :
        IF ccy \in {"USD", "EUR", "GBP"} THEN ct[1]
        ELSE IF ccy \in {"AUD", "CAD", "CHF", "DKK", "HKD", "KRW", "NOK", "NZD",
                         "SEK", "SGD", "TWD"} THEN ct[2]
        ELSE IF ccy = "JPY" THEN ct[3]
        ELSE ct[4])

\* CreditQuality::vega_ct: <<Qualifying, NonQualifying>>; 10^4 USD
credit_vega_ct(wnc) ==
    CASE wnc = "2_5" -> << 26000, 14500 >>
      [] wnc = "2_6" -> << 36000, 7000 >>
      [] wnc = "2_7" -> << 29000, 2100 >>

\* FxCategory::from_currency(ccy1).vega_ct(FxCategory::from_currency(ccy2));
\* 10^4 USD
fx_vega_ct(wnc, ccy1, ccy2) ==
    LET Category(ccy) == IF ccy \in FX_CATEGORY1[wnc] THEN 1
                         ELSE IF ccy \in FX_CATEGORY2[wnc] THEN 2 ELSE 3
    IN  (CASE wnc = "2_5" -> << <<280000, 130000, 55000>>,
                                <<130000, 49000, 31000>>,
                                <<55000, 31000, 20000>> >>
           [] wnc = "2_6" -> << <<280000, 140000, 59000>>,
                                <<140000, 52000, 34000>>,
                                <<59000, 34000, 21000>> >>
           [] wnc = "2_7" -> << <<300000, 150000, 67000>>,
                                <<150000, 60000, 39000>>,
                                <<67000, 39000, 24000>> >>)[Category(ccy1)][Category(ccy2)]

\* EQUITY_VEGA_CT[i + 1] is the source's EQUITY_VEGA_CT[i]; units of 10^4 USD
\* (the source gives millions)
EQUITY_VEGA_CT ==
    [v \in Versions |->
        CASE v = "2_5" -> << 4000, 21000, 21000, 21000, 21000, 130000, 130000, 130000, 130000, 4000, 20000, 590000, 590000 >>
          [] v = "2_6" -> << 3900, 21000, 21000, 21000, 21000, 130000, 130000, 130000, 130000, 3900, 19000, 640000, 640000 >>
          [] v = "2_7" -> << 7400, 30000, 30000, 30000, 30000, 150000, 150000, 150000, 150000, 7400, 28000, 430000, 430000 >>]

\* COMMODITY_VEGA_CT[i + 1] is the source's COMMODITY_VEGA_CT[i]; units of
\* 10^4 USD (the source gives millions)
COMMODITY_VEGA_CT ==
    [v \in Versions |->
        CASE v = "2_5" -> << 6500, 21000, 270000, 29000, 29000, 29000, 500000, 500000, 92000, 92000, 10000, 35000, 72000, 50000, 50000, 50000, 6500, 6500 >>
          [] v = "2_6" -> << 6900, 39000, 290000, 31000, 31000, 31000, 630000, 630000, 120000, 120000, 12000, 39000, 130000, 59000, 59000, 59000, 6900, 6900 >>
          [] v = "2_7" -> << 5900, 45000, 230000, 24000, 24000, 24000, 640000, 640000, 130000, 130000, 9400, 49000, 81000, 73000, 73000, 73000, 5900, 5900 >>]

\* the Delta and Vega thresholds; currency and bucket are Option<&str>
wnc_t(wnc, risk_class, risk_type, currency, bucket) ==
    Let(IF bucket = None THEN None ELSE bucket_idx(bucket[1]), LAMBDA b :
        LET ByBucket(table) ==
                IF b = None THEN None
                ELSE Let(get(table, b[1]), LAMBDA ct :
                         IF ct = None THEN None ELSE Some(Millions(ct[1])))
        IN
        IF risk_type = "Delta"
        THEN IF risk_class = "Rates"
             THEN Some(Millions(ir_delta_ct(wnc, UnwrapOr(currency, "Others"))))
             ELSE IF risk_class \in LIST_CREDIT_Q
             THEN ByBucket(CREDIT_DELTA_CT_QUALIFYING[wnc])
             ELSE IF risk_class \in LIST_CREDIT_NON_Q
             THEN ByBucket(CREDIT_DELTA_CT_NON_QUALIFYING[wnc])
             ELSE IF risk_class \in LIST_EQUITY THEN ByBucket(EQUITY_DELTA_CT[wnc])
             ELSE IF risk_class \in LIST_COMMODITY
             THEN ByBucket(COMMODITY_DELTA_CT[wnc])
             ELSE IF risk_class \in LIST_FX
             THEN IF currency = None THEN None
                  ELSE Some(Millions(fx_delta_ct(wnc, currency[1])))
             ELSE None
        ELSE IF risk_type = "Vega"
        THEN IF risk_class = "Rates"
             THEN Some(Millions(ir_vega_ct(wnc, UnwrapOr(currency, "Others"))))
             ELSE IF risk_class \in LIST_CREDIT_Q
             THEN Some(Millions(credit_vega_ct(wnc)[1]))
             ELSE IF risk_class \in LIST_CREDIT_NON_Q
             THEN Some(Millions(credit_vega_ct(wnc)[2]))
             ELSE IF risk_class \in LIST_EQUITY THEN ByBucket(EQUITY_VEGA_CT[wnc])
             ELSE IF risk_class \in LIST_COMMODITY
             THEN ByBucket(COMMODITY_VEGA_CT[wnc])
             ELSE IF risk_class \in LIST_FX
             THEN IF currency = None \/ Len(currency[1]) # 6 THEN None
                  ELSE Some(Millions(fx_vega_ct(wnc, SubSeq(currency[1], 1, 3),
                                                SubSeq(currency[1], 4, 6))))
             ELSE None
        ELSE None)

\* RISK_CLASSES, the label order of CORR_PARAMS
RISK_CLASSES == <<"Rates", "CreditQ", "CreditNonQ", "Equity", "Commodity", "FX">>

\* a lookup whose columns are labelled in the order of the breakdown
wnc_psi_relabelled(wnc, rc1, rc2) ==
    Some(matrix_lookup(CORR_PARAMS[wnc], RISK_CLASSES, RiskClasses, rc1, rc2))

wnc_psi(wnc, rc1, rc2) ==
    Some(matrix_lookup(CORR_PARAMS[wnc], RISK_CLASSES, RISK_CLASSES, rc1, rc2))


(***************************************************************************)
(* agg_sensitivities.rs                                                    *)
(***************************************************************************)
\* `use crate::v2_5::*`: the parameter file whose constants are in scope in
\* agg_sensitivities.rs and margin_risk_class.rs, whatever provider is passed
UseCrate == "2_5"

\* VolatilityLevel::as_index / RiskLevel of a currency, 1 = Regular, 2 = High
VolLevel(ccy) == IF ccy \in HIGH_VOL_CURRENCY_GROUP[UseCrate] THEN 2 ELSE 1

\* min(cr_i, cr_j) / max(cr_i, cr_j), in thousandths, when max > 0
CrRatio(cr_i, cr_j) ==
    IF Max(cr_i, cr_j) > 0
    THEN (Min(cr_i, cr_j) * CRScale) \div Max(cr_i, cr_j) ELSE CRScale

\* list_cr, bucket, tenor, index are Options of sequences.  The sum is
\* formed exactly, in units of cents^2 / 10^8 (rho in hundredths, phi and f
\* in thousandths); the result is its square root in cents
k_delta(wnc, risk_class, list_ws, list_cr, bucket, tenor, index, calculation_currency) ==
    LET n == Len(list_ws)
    IN
    \* corr[(i - 1) * n + j] is <<rho, phi, f>> of the pair (i, j) of the loops
    Let(collect([p \in 1..(n * n) |->
            Let(((p - 1) \div n) + 1, LAMBDA i :
            Let(((p - 1) % n) + 1, LAMBDA j :
            Let(IF list_cr = None \/ i = j THEN CRScale
                ELSE CrRatio(list_cr[1][i], list_cr[1][j]), LAMBDA f :
                IF i = j THEN <<CorrScale, PhiScale, CRScale>>
                ELSE IF risk_class = "Rates"
                THEN IF index = None THEN <<CorrScale, PhiScale, CRScale>>
                     ELSE Let(index[1], LAMBDA idx :
                          << IF idx[i] \notin {"Inf", "XCcy"} /\ idx[j] \notin {"Inf", "XCcy"}
                                /\ tenor # None
                             THEN UnwrapOr(wnc_rho(wnc, "Risk_IRCurve", tenor[1][i],
                                                   tenor[1][j], None), CorrScale)
                             ELSE CorrScale,
                             IF idx[i] = idx[j] THEN PhiScale
                             ELSE IF idx[i] = "XCcy" \/ idx[j] = "XCcy"
                                  THEN CCY_BASIS_SPREAD_CORR[UseCrate]
                             ELSE IF idx[i] = "Inf" \/ idx[j] = "Inf"
                                  THEN INFLATION_CORR[UseCrate]
                             ELSE SUB_CURVES_CORR[UseCrate],
                             CRScale >>)
                ELSE IF risk_class \in LIST_CREDIT_Q \cup LIST_CREDIT_NON_Q
                THEN << IF index = None THEN CorrScale
                        ELSE UnwrapOr(wnc_rho(wnc, risk_class, index[1][i],
                                              index[1][j], None), CorrScale),
                        PhiScale, f >>
                ELSE IF risk_class \in LIST_EQUITY \cup LIST_COMMODITY
                THEN << IF bucket = None THEN CorrScale
                        ELSE UnwrapOr(wnc_rho(wnc, risk_class, "", "",
                                              Some(bucket[1][1])), CorrScale),
                        PhiScale, f >>
                ELSE IF risk_class \in LIST_FX
                THEN << IF bucket = None THEN CorrScale
                        ELSE IF VolLevel(calculation_currency) = 1
                        THEN FX_REG_VOL_CORR[UseCrate][VolLevel(bucket[1][i])]
                                                      [VolLevel(bucket[1][j])]
                        ELSE FX_HIGH_VOL_CORR[UseCrate][VolLevel(bucket[1][i])]
                                                       [VolLevel(bucket[1][j])],
                        PhiScale, f >>
                ELSE <<CorrScale, PhiScale, f>>)))]),
        LAMBDA corr :
        IF \E p \in 1..(n * n) : corr[p][1] = Panic THEN Panic
        ELSE IF HasNaN(list_ws) THEN NaN
        ELSE FSqrtSB(SBSum(collect([p \in 1..(n * n) |->
                 SBMulInt(SBMulInt(SBMulInt(
                     FMulSB(list_ws[((p - 1) \div n) + 1], list_ws[((p - 1) % n) + 1]),
                     corr[p][1]), corr[p][2]), corr[p][3])])), 100000000))

\* the vega parameters of v2_5.rs, the file in scope: weights in hundredths
IR_VRW == 18
CREDIT_Q_V_RW == 74
CREDIT_NON_Q_VRW == 74
EQUITY_HVR == 58
EQUITY_VRW == 45
EQUITY_VRW_BUCKET_12 == 96
COMMODITY_HVR == 69
COMMODITY_VRW == 60
FX_HVR == 52
FX_VRW == 47
\* FX_VEGA_CORR, in hundredths
FX_VEGA_CORR == 50

\* vcr, bucket and index are Options.  The sum is formed exactly, in units of
\* cents^2 / 10^8, as in k_delta; the result is its square root in cents
k_vega(wnc, risk_class, vr, vcr, bucket, index) ==
    LET n == Len(vr)
        \* index.unwrap_or(&empty_index)
        idx == IF index = None THEN collect([i \in 1..n |-> ""]) ELSE index[1]
    IN
    \* corr[(i - 1) * n + j] is <<rho, its factor in thousandths, f>> of the
    \* pair (i, j) of the loops
    Let(collect([p \in 1..(n * n) |->
            Let(((p - 1) \div n) + 1, LAMBDA i :
            Let(((p - 1) % n) + 1, LAMBDA j :
            Let(IF vcr = None \/ i = j THEN CRScale
                ELSE CrRatio(vcr[1][i], vcr[1][j]), LAMBDA f :
                IF i = j THEN <<CorrScale, PhiScale, CRScale>>
                ELSE IF risk_class = "Rates"
                THEN IF idx[i] = "Inf" /\ idx[j] = "Inf"
                     THEN <<CorrScale, PhiScale, CRScale>>
                     ELSE IF idx[i] = "Inf" \/ idx[j] = "Inf"
                     THEN <<CorrScale, INFLATION_CORR[UseCrate], CRScale>>
                     ELSE << UnwrapOr(wnc_rho(wnc, "Risk_IRVol", idx[i], idx[j], None),
                                      CorrScale),
                             PhiScale, CRScale >>
                ELSE IF risk_class \in LIST_EQUITY \cup LIST_COMMODITY
                THEN << UnwrapOr(wnc_rho(wnc, risk_class, "", "", bucket), CorrScale),
                        PhiScale, f >>
                ELSE IF risk_class \in LIST_FX
                THEN <<FX_VEGA_CORR, PhiScale, f>>
                ELSE IF risk_class \in {"Risk_CreditVol", "Risk_CreditVolNonQ"}
                THEN << UnwrapOr(wnc_rho(wnc, risk_class, idx[i], idx[j], None),
                                 CorrScale),
                        PhiScale, f >>
                ELSE <<CorrScale, PhiScale, CRScale>>)))]),
        LAMBDA corr :
        IF \E p \in 1..(n * n) : corr[p][1] = Panic THEN Panic
        ELSE IF HasNaN(vr) THEN NaN
        ELSE FSqrtSB(SBSum(collect([p \in 1..(n * n) |->
                 SBMulInt(SBMulInt(SBMulInt(
                     FMulSB(vr[((p - 1) \div n) + 1], vr[((p - 1) % n) + 1]),
                     corr[p][1]), corr[p][2]), corr[p][3])])), 100000000))

\* the start of k: cvr_list.iter().map(|cvr| cvr.powi(2)).sum(), in cents^2
curvature_squares(cvr_list) ==
    SBSum(collect([i \in 1..Len(cvr_list) |-> FMulSB(cvr_list[i], cvr_list[i])]))

\* bucket and index are Options.  The sum is formed exactly, in units of
\* cents^2 / 10^6 (the squared rho in millionths); the result is its square
\* root in cents
k_curvature(wnc, risk_class, cvr_list, bucket, index) ==
    LET n == Len(cvr_list)
        \* index.unwrap_or(&empty_index)
        idx == IF index = None THEN collect([i \in 1..n |-> ""]) ELSE index[1]
        \* rho.powi(2) in millionths, of a rho in hundredths
        Squared(rho) == IF rho = Panic THEN Panic ELSE rho * rho * 100
    IN
    \* rho2[(i - 1) * n + j] is rho.powi(2) of the pair (i, j) of the loops
    Let(collect([p \in 1..(n * n) |->
            Let(((p - 1) \div n) + 1, LAMBDA i :
            Let(((p - 1) % n) + 1, LAMBDA j :
                IF i = j THEN 0
                ELSE IF risk_class = "Rates"
                THEN IF idx[i] = "Inf" /\ idx[j] = "Inf" THEN 1000000
                     ELSE IF idx[i] = "Inf" \/ idx[j] = "Inf"
                     THEN INFLATION_CORR[UseCrate] * INFLATION_CORR[UseCrate]
                     ELSE Squared(UnwrapOr(wnc_rho(wnc, "Risk_IRVol", idx[i], idx[j],
                                                   None), CorrScale))
                ELSE IF risk_class \in LIST_EQUITY \cup LIST_COMMODITY
                THEN Squared(UnwrapOr(wnc_rho(wnc, risk_class, "", "", bucket),
                                      CorrScale))
                ELSE IF risk_class \in LIST_FX THEN Squared(FX_VEGA_CORR)
                ELSE IF risk_class \in {"Risk_CreditVol", "Risk_CreditVolNonQ"}
                THEN Squared(UnwrapOr(wnc_rho(wnc, risk_class, idx[i], idx[j], None),
                                      CorrScale))
                ELSE 1000000))]),
        LAMBDA rho2 :
        IF \E p \in 1..(n * n) : rho2[p] = Panic THEN Panic
        ELSE IF HasNaN(cvr_list) THEN NaN
        ELSE FSqrtSB(SBAdd(SBMulInt(curvature_squares(cvr_list), 1000000),
                 SBSum(collect([p \in 1..(n * n) |->
                     SBMulInt(FMulSB(cvr_list[((p - 1) \div n) + 1],
                                     cvr_list[((p - 1) % n) + 1]), rho2[p])]))),
                 1000000))

(***************************************************************************)
(* margin_risk_class.rs                                                    *)
(***************************************************************************)
init_margin_dict ==
    collect_map([rc \in {"Rates", "CreditQ", "CreditNonQ", "Equity", "Commodity", "FX"} |->
        IF rc = "CreditQ"
        THEN [Delta |-> 0, Vega |-> 0, Curvature |-> 0, BaseCorr |-> 0]
        ELSE [Delta |-> 0, Vega |-> 0, Curvature |-> 0]])

\* MarginByRiskClass::new
MarginByRiskClass(crif, calculation_currency, wnc) ==
    [crif |-> crif, calculation_currency |-> calculation_currency, wnc |-> wnc,
     list_risk_types |-> unique_column_values(crif, "RiskType")]

RECURSIVE Concat(_)
Concat(seqs) == IF seqs = <<>> THEN <<>> ELSE seqs[1] \o Concat(Tail(seqs))

Column(rows, k) == collect([i \in 1..Len(rows) |-> rows[i][k]])

\* rw * s * cr: rw in tenths, s in cents, cr in thousandths
WeightedSensitivity(rw, s, cr) ==
    IF IsNaN(s) THEN NaN
    ELSE SBToInt(SBDivNat(SBMulInt(SBMulInt(SB(s), rw), cr), RWScale * CRScale))

\* list_ws.iter().sum().min(k).max(-k)
ClampedSum(list_ws, k) == FMax(FMin(FSum(list_ws), k), FNeg(k))

\* sum of k^2 over list_k, times scale
SumSquares(list_k, scale) ==
    SBSum(collect([i \in 1..Len(list_k) |-> SBMulInt(FMulSB(list_k[i], list_k[i]), scale)]))

\* reg_vol_rw_lookup / low_vol_rw_lookup / high_vol_rw_lookup
rw_lookup(table, tenor) ==
    Let(SelectSeq(table, LAMBDA e : e[1] = tenor), LAMBDA hit :
        IF hit = <<>> THEN Panic ELSE hit[1][2])

\* the <<ws, tenor, index>> entries of one currency of ir_delta_margin
IrCurrencyEntries(self, crif_currency, currency, cr) ==
    Let(unique_column_values(crif_currency, "RiskType"), LAMBDA risk_types_in_currency :
    Concat(collect([r \in 1..Len(risk_types_in_currency) |->
        Let(risk_types_in_currency[r], LAMBDA risk_class :
        Let(filter_rows(crif_currency, <<<<"RiskType", <<risk_class>>>>>>),
            LAMBDA crif_risk_class :
        Let(sum_sensitivities(crif_risk_class), LAMBDA sensitivities :
            IF risk_class = "Risk_Inflation"
            THEN << <<WeightedSensitivity(INFLATION_RW[UseCrate], sensitivities, cr),
                      "Inf", "Inf">> >>
            ELSE IF risk_class = "Risk_XCcyBasis"
            THEN << <<WeightedSensitivity(CCY_BASIS_SWAP_SPREAD_RW[UseCrate],
                                          sensitivities, CRScale),
                      "XCcy", "XCcy">> >>
            ELSE IF risk_class = "Risk_IRCurve"
            THEN Let(unique_column_values(crif_risk_class, "Label2"),
                     LAMBDA subcurve_list :
                 Concat(collect([c \in 1..Len(subcurve_list) |->
                     Let(subcurve_list[c], LAMBDA subcurve :
                     Let(filter_rows(crif_risk_class, <<<<"Label2", <<subcurve>>>>>>),
                         LAMBDA crif_subcurve :
                     Let(tenor_list(crif_subcurve), LAMBDA tenors :
                         collect([t \in 1..Len(tenors) |->
                             << WeightedSensitivity(
                                    rw_lookup(
                                        IF currency \in REG_VOL_CCY_BUCKET[UseCrate]
                                        THEN REG_VOL_RW[UseCrate]
                                        ELSE IF currency \in LOW_VOL_CCY_BUCKET[UseCrate]
                                        THEN LOW_VOL_RW[UseCrate]
                                        ELSE HIGH_VOL_RW[UseCrate],
                                        tenors[t]),
                                    sum_sensitivities(filter_rows(crif_subcurve,
                                        <<<<"Label1", <<tenors[t]>>>>>>)),
                                    cr),
                                tenors[t], subcurve >>]))))])))
            ELSE <<>>)))])))

\* the value ir_delta_margin adds to Rates / Delta (Panic if a lookup panics)
ir_delta_value(self) ==
    Let(filter_rows(self.crif,
            <<<<"RiskType", <<"Risk_IRCurve", "Risk_Inflation", "Risk_XCcyBasis">>>>>>),
        LAMBDA crif :
    Let(unique_column_values(crif, "Qualifier"), LAMBDA currency_list :
    \* per[i]: the cr, k and clamped sum of the iteration of currency_list[i]
    Let(collect([c \in 1..Len(currency_list) |->
            Let(currency_list[c], LAMBDA currency :
            Let(filter_rows(crif, <<<<"Qualifier", <<currency>>>>>>), LAMBDA crif_currency :
            Let(concentration_threshold(
                    sum_sensitivities(
                        drop_rows(crif_currency, <<<<"RiskType", "Risk_XCcyBasis">>>>)),
                    UnwrapOr(wnc_t(self.wnc, "Rates", "Delta", Some(currency), None),
                             <<1>>)),
                LAMBDA cr :
            Let(IrCurrencyEntries(self, crif_currency, currency, cr), LAMBDA e :
            Let(k_delta(self.wnc, "Rates", Column(e, 1), None, None,
                        Some(Column(e, 2)), Some(Column(e, 3)),
                        self.calculation_currency),
                LAMBDA k :
                [cr |-> cr, k |-> k,
                 s |-> IF k = Panic THEN 0 ELSE ClampedSum(Column(e, 1), k)])))))]),
        LAMBDA per :
        LET n == Len(currency_list)
            list_k == collect([i \in 1..n |-> per[i].k])
            list_s == collect([i \in 1..n |-> per[i].s])
            gamma == IF n > 1 THEN IR_GAMMA_DIFF_CCY[UseCrate] ELSE CorrScale
            Cross(i, j) ==
                IF i = j THEN SBZero
                ELSE SBMulInt(SBMulInt(FMulSB(list_s[i], list_s[j]), gamma),
                              CrRatio(per[i].cr, per[j].cr))
        IN  IF \E i \in 1..n : list_k[i] = Panic THEN Panic
            ELSE IF HasNaN(list_k) \/ (n > 1 /\ HasNaN(list_s)) THEN NaN
            ELSE FSqrtSB(
                     SBAdd(SumSquares(list_k, CorrScale * CRScale),
                           SBSum(collect([p \in 1..(n * n) |->
                               Cross(((p - 1) \div n) + 1, ((p - 1) % n) + 1)]))),
                     CorrScale * CRScale))))

\* Delta Margin for Rates Risk Classes Only
ir_delta_margin(self) ==
    IF ~ \E rt \in {"Risk_IRCurve", "Risk_Inflation", "Risk_XCcyBasis"} :
             contains(self.list_risk_types, rt)
    THEN init_margin_dict
    ELSE Let(ir_delta_value(self), LAMBDA v :
             IF v = Panic THEN Unwound
             ELSE [init_margin_dict EXCEPT !["Rates"]["Delta"] = FAdd(@, v)])

\* the Risk_FX branch of delta_margin: the value added to FX / Delta
fx_delta_value(self, risk_class) ==
    Let(filter_rows(self.crif, <<<<"RiskType", <<risk_class>>>>>>), LAMBDA crif_fx :
    Let(unique_column_values(crif_fx, "Qualifier"), LAMBDA currency_list :
    \* e[i]: <<ws, cr>> of the iteration of currency_list[i]
    Let(collect([c \in 1..Len(currency_list) |->
            Let(currency_list[c], LAMBDA currency :
            Let(sum_sensitivities(filter_rows(crif_fx, <<<<"Qualifier", <<currency>>>>>>)),
                LAMBDA sensitivities :
            Let(concentration_threshold(sensitivities,
                    UnwrapOr(wnc_t(self.wnc, risk_class, "Delta", Some(currency), None),
                             <<1>>)),
                LAMBDA cr :
                << WeightedSensitivity(
                       IF currency = self.calculation_currency THEN 0
                       ELSE fx_rw_table[UseCrate][VolLevel(self.calculation_currency)]
                                                 [VolLevel(currency)],
                       sensitivities, cr),
                   cr >>)))]),
        LAMBDA e :
        k_delta(self.wnc, risk_class, Column(e, 1), Some(Column(e, 2)),
                Some(currency_list), None, None, self.calculation_currency))))

\* one bucket of the bucketed branch of delta_margin: [k, s]
BucketDelta(self, risk_class, crif_others, bucket) ==
    Let(filter_rows(crif_others,
            <<<<"Bucket", <<IF bucket = 0 THEN "Residual" ELSE ToString(bucket)>>>>>>),
        LAMBDA crif_bucket :
    Let(UnwrapOr(wnc_rw(self.wnc, risk_class, ToString(bucket)), RWScale), LAMBDA rw :
    Let(UnwrapOr(wnc_t(self.wnc, risk_class, "Delta", None, Some(ToString(bucket))),
                 <<1>>),
        LAMBDA t :
    Let(unique_column_values(crif_bucket, "Qualifier"), LAMBDA qualifier_list :
    \* the <<ws, cr, index>> entries, qualifier by qualifier
    Let(Concat(collect([q \in 1..Len(qualifier_list) |->
            Let(qualifier_list[q], LAMBDA qualifier :
            Let(filter_rows(crif_bucket, <<<<"Qualifier", <<qualifier>>>>>>),
                LAMBDA crif_qualifier :
            Let(sum_sensitivities(crif_qualifier), LAMBDA sensitivities :
            Let(concentration_threshold(sensitivities, t), LAMBDA cr :
                IF risk_class \in {"Risk_CreditQ", "Risk_CreditNonQ"}
                THEN Let(unique_column_values(crif_qualifier, "Label2"),
                         LAMBDA label2_list :
                     Let(tenor_list(crif_qualifier), LAMBDA tenors :
                     Concat(collect([l \in 1..Len(label2_list) |->
                         collect([i \in 1..Len(tenors) |->
                             << WeightedSensitivity(rw,
                                    sum_sensitivities(filter_rows(crif_qualifier,
                                        << <<"Label1", <<tenors[i]>>>>,
                                           <<"Label2", <<label2_list[l]>>>> >>)),
                                    cr),
                                cr,
                                IF bucket = 0 THEN "Res"
                                ELSE IF risk_class = "Risk_CreditQ" THEN qualifier
                                ELSE label2_list[l] >>])]))))
                ELSE << <<WeightedSensitivity(rw, sensitivities, cr), cr, "">> >>))))])),
        LAMBDA e :
    Let(k_delta(self.wnc, risk_class, Column(e, 1), Some(Column(e, 2)),
                Some(<<ToString(bucket)>>), None,
                IF risk_class \in {"Risk_CreditQ", "Risk_CreditNonQ"} /\ e # <<>>
                THEN Some(Column(e, 3)) ELSE None,
                self.calculation_currency),
        LAMBDA k :
        [k |-> k, s |-> IF k = Panic THEN 0 ELSE ClampedSum(Column(e, 1), k)]))))))

\* the bucketed branch of delta_margin: the value added to the Delta cell
\* of the risk class of risk_class
bucketed_delta_value(self, risk_class) ==
    Let(filter_rows(self.crif, <<<<"RiskType", <<risk_class>>>>>>), LAMBDA crif_others :
    Let(bucket_list(crif_others), LAMBDA buckets :
    \* per[i]: the k and clamped sum of the iteration of buckets[i]
    Let(collect([i \in 1..Len(buckets) |->
            BucketDelta(self, risk_class, crif_others, buckets[i])]),
        LAMBDA per :
    Let(SelectSeq(buckets, LAMBDA b : b # 0), LAMBDA bucket_list_non_res :
    Let(Len(bucket_list_non_res), LAMBDA m :
    \* gamma[(i - 1) * m + j]: the gamma of the pair (i, j) of the loops
    Let(collect([p \in 1..(m * m) |->
            IF (p - 1) \div m = (p - 1) % m THEN 0
            ELSE UnwrapOr(wnc_gamma(self.wnc, risk_class,
                              ToString(bucket_list_non_res[((p - 1) \div m) + 1]),
                              ToString(bucket_list_non_res[((p - 1) % m) + 1])), 0)]),
        LAMBDA gamma :
        LET k_res == FSum(Column(SelectSeq(
                         collect([i \in 1..Len(buckets) |-> <<per[i].k, buckets[i]>>]),
                         LAMBDA x : x[2] = 0), 1))
            list_k == Column(SelectSeq(
                          collect([i \in 1..Len(buckets) |-> <<per[i].k, buckets[i]>>]),
                          LAMBDA x : x[2] # 0), 1)
            list_s == collect([i \in 1..Len(buckets) |-> per[i].s])
            cross == collect([p \in 1..(m * m) |->
                         IF (p - 1) \div m = (p - 1) % m THEN SBZero
                         ELSE SBMulInt(FMulSB(list_s[((p - 1) \div m) + 1],
                                              list_s[((p - 1) % m) + 1]), gamma[p])])
            root == IF HasNaN(list_k) \/ (m > 1 /\ HasNaN(SubSeq(list_s, 1, m)))
                    THEN NaN
                    ELSE FSqrtSB(SBAdd(SumSquares(list_k, CorrScale), SBSum(cross)),
                                 CorrScale)
        IN  IF \/ \E i \in 1..Len(buckets) : per[i].k = Panic
               \/ \E p \in 1..(m * m) : gamma[p] = Panic
            THEN Panic
            ELSE IF risk_class \in LIST_COMMODITY THEN root
            ELSE FAdd(root, k_res)))))))

\* the risk class whose Delta cell a risk type of delta_margin feeds
DeltaCell(risk_class) ==
    IF risk_class = "Risk_FX" THEN "FX"
    ELSE IF risk_class \in LIST_CREDIT_Q THEN "CreditQ"
    ELSE IF risk_class \in LIST_CREDIT_NON_Q THEN "CreditNonQ"
    ELSE IF risk_class \in LIST_EQUITY THEN "Equity"
    ELSE "Commodity"

\* Delta Margin for non-Rates risk classes
delta_margin(self) ==
    Let(SelectSeq(self.list_risk_types,
            LAMBDA rc : contains(<<"Risk_FX", "Risk_CreditQ", "Risk_CreditNonQ",
                                   "Risk_Equity", "Risk_Commodity">>, rc)),
        LAMBDA list_risk_classes :
    \* vals[i]: what the iteration of list_risk_classes[i] adds
    Let(collect([i \in 1..Len(list_risk_classes) |->
            IF list_risk_classes[i] = "Risk_FX"
            THEN fx_delta_value(self, list_risk_classes[i])
            ELSE bucketed_delta_value(self, list_risk_classes[i])]),
        LAMBDA vals :
        IF \E i \in 1..Len(vals) : vals[i] = Panic THEN Unwound
        ELSE collect_map([rc \in DOMAIN init_margin_dict |->
                 [init_margin_dict[rc] EXCEPT !.Delta =
                     FSum(<<@>> \o Column(SelectSeq(
                         collect([i \in 1..Len(vals) |-> <<vals[i], list_risk_classes[i]>>]),
                         LAMBDA x : DeltaCell(x[2]) = rc), 1))]])))

\* BaseCorr margin: the value added to CreditQ / BaseCorr
base_corr_margin(self) ==
    Let(filter_rows(self.crif, <<<<"RiskType", <<"Risk_BaseCorr">>>>>>), LAMBDA crif :
    Let(unique_column_values(crif, "Qualifier"), LAMBDA qualifier_list :
    Let(collect([i \in 1..Len(qualifier_list) |->
            WeightedSensitivity(CREDIT_Q_BASE_CORR_WEIGHT[UseCrate],
                sum_sensitivities(filter_rows(crif,
                    <<<<"Qualifier", <<qualifier_list[i]>>>>>>)), CRScale)]),
        LAMBDA ws :
    Let(UnwrapOr(wnc_rho(self.wnc, "Risk_BaseCorr", "", "", None), CorrScale), LAMBDA rho :
        LET n == Len(qualifier_list)
            terms == collect([p \in 1..(n * n) |->
                         SBMulInt(FMulSB(ws[((p - 1) \div n) + 1], ws[((p - 1) % n) + 1]),
                                  IF (p - 1) \div n = (p - 1) % n THEN CorrScale
                                  ELSE rho)])
            v == IF HasNaN(ws) THEN NaN ELSE FSqrtSB(SBSum(terms), CorrScale)
        IN  [init_margin_dict EXCEPT !["CreditQ"].BaseCorr = FAdd(@, v)]))))

\* the value ir_vega_margin adds to Rates / Vega (Panic if a lookup panics)
ir_vega_value(self) ==
    Let(unique_column_values(self.crif, "Qualifier"), LAMBDA currency_list :
    \* per[i]: the vcr, k and clamped sum of the iteration of currency_list[i]
    Let(collect([c \in 1..Len(currency_list) |->
            Let(filter_rows(self.crif,
                    << <<"RiskType", <<"Risk_IRVol", "Risk_InflationVol">>>>,
                       <<"Qualifier", <<currency_list[c]>>>> >>),
                LAMBDA crif_currency :
            Let(concentration_threshold(
                    sum_sensitivities(crif_currency),
                    UnwrapOr(wnc_t(self.wnc, "Rates", "Vega", Some(currency_list[c]),
                                   None), <<1>>)),
                LAMBDA vcr :
            Let(unique_column_values(crif_currency, "RiskType"),
                LAMBDA risk_types_in_currency :
            \* the <<vr, index>> entries of the currency
            Let(Concat(collect([r \in 1..Len(risk_types_in_currency) |->
                    IF risk_types_in_currency[r] \notin {"Risk_IRVol", "Risk_InflationVol"}
                    THEN <<>>
                    ELSE
                    Let(filter_rows(crif_currency,
                            <<<<"RiskType", <<risk_types_in_currency[r]>>>>>>),
                        LAMBDA crif_risk_class :
                    Let(tenor_list(crif_risk_class), LAMBDA tenors :
                        collect([t \in 1..Len(tenors) |->
                            << FScale(sum_sensitivities(filter_rows(crif_risk_class,
                                          <<<<"Label1", <<tenors[t]>>>>>>)),
                                      IR_VRW * vcr, 100 * CRScale),
                               IF risk_types_in_currency[r] = "Risk_IRVol"
                               THEN tenors[t] ELSE "Inf" >>])))])),
                LAMBDA e :
            Let(k_vega(self.wnc, "Rates", Column(e, 1), None, None, Some(Column(e, 2))),
                LAMBDA k :
                [vcr |-> vcr, k |-> k,
                 s |-> IF k = Panic THEN 0 ELSE ClampedSum(Column(e, 1), k)])))))]),
        LAMBDA per :
        LET n == Len(currency_list)
            list_k == collect([i \in 1..n |-> per[i].k])
            list_s == collect([i \in 1..n |-> per[i].s])
            Cross(i, j) ==
                IF i = j THEN SBZero
                ELSE SBMulInt(SBMulInt(FMulSB(list_s[i], list_s[j]),
                                       IR_GAMMA_DIFF_CCY[UseCrate]),
                              CrRatio(per[i].vcr, per[j].vcr))
        IN  IF \E i \in 1..n : list_k[i] = Panic THEN Panic
            ELSE IF HasNaN(list_k) \/ (n > 1 /\ HasNaN(list_s)) THEN NaN
            ELSE FSqrtSB(
                     SBAdd(SumSquares(list_k, CorrScale * CRScale),
                           SBSum(collect([p \in 1..(n * n) |->
                               Cross(((p - 1) \div n) + 1, ((p - 1) % n) + 1)]))),
                     CorrScale * CRScale)))

\* IR Vega Margin
ir_vega_margin(self) ==
    IF ~ \E rt \in {"Risk_IRVol", "Risk_InflationVol"} :
             contains(self.list_risk_types, rt)
    THEN init_margin_dict
    ELSE Let(ir_vega_value(self), LAMBDA v :
             IF v = Panic THEN Unwound
             ELSE [init_margin_dict EXCEPT !["Rates"]["Vega"] = FAdd(@, v)])

\* sqrt(365 / 14) / Normal::new(0.0, 1.0).inverse_cdf(0.99) = 2.1949, in
\* ten-thousandths
SigmaFactor == 21949
SigmaScale == 10000

\* hvr * sigma * sensitivities with sigma = rw * sqrt(365 / 14) / inverse_cdf(0.99):
\* hvr in hundredths, rw in tenths, the result in cents
HistoricalVolRisk(hvr, rw, sensitivities) ==
    IF IsNaN(sensitivities) THEN NaN
    ELSE SBToInt(SBDivNat(SBDivNat(
             SBMulInt(SBMulInt(SB(sensitivities), hvr * rw), SigmaFactor),
             100 * RWScale), SigmaScale))

\* the Risk_FXVol branch of vega_margin: the value added to FX / Vega
fx_vega_value(self, risk_class) ==
    IF SlicePanics(get_column_values(self.crif, "Qualifier")) THEN Panic
    ELSE
    Let(currency_pair_list(self.crif), LAMBDA pairs :
    \* e[i]: <<vr_k, vcr>> of the iteration of pairs[i]
    Let(collect([c \in 1..Len(pairs) |->
            Let(pairs[c], LAMBDA currency_pair :
            Let(HistoricalVolRisk(
                    FX_HVR,
                    fx_rw_table[UseCrate][VolLevel(SubSeq(currency_pair, 4, 6))]
                                         [VolLevel(SubSeq(currency_pair, 1, 3))],
                    sum_sensitivities(filter_rows(self.crif,
                        << <<"RiskType", <<risk_class>>>>,
                           <<"Qualifier",
                             <<currency_pair,
                               SubSeq(currency_pair, 4, 6)
                                   \o SubSeq(currency_pair, 1, 3)>>>> >>))),
                LAMBDA vr_ik :
            Let(concentration_threshold(vr_ik,
                    UnwrapOr(wnc_t(self.wnc, risk_class, "Vega", Some(currency_pair),
                                   None), <<1>>)),
                LAMBDA vcr :
                << FScale(vr_ik, FX_VRW * vcr, 100 * CRScale), vcr >>)))]),
        LAMBDA e :
        k_vega(self.wnc, risk_class, Column(e, 1), Some(Column(e, 2)), None, None)))

\* one bucket of the Equity, Commodity, Credit branch of vega_margin: [k, s]
BucketVega(self, risk_class, crif_risk_type, bucket) ==
    Let(filter_rows(crif_risk_type,
            <<<<"Bucket", <<IF bucket = 0 THEN "Residual" ELSE ToString(bucket)>>>>>>),
        LAMBDA crif_bucket :
    Let(UnwrapOr(wnc_rw(self.wnc, risk_class, ToString(bucket)), RWScale), LAMBDA rw :
    Let(UnwrapOr(wnc_t(self.wnc, risk_class, "Vega", None, Some(ToString(bucket))),
                 <<1>>),
        LAMBDA vt :
    Let(unique_column_values(crif_bucket, "Qualifier"), LAMBDA qualifier_list :
    \* the <<vr, vcr, index>> entries, qualifier by qualifier
    Let(Concat(collect([q \in 1..Len(qualifier_list) |->
            Let(qualifier_list[q], LAMBDA qualifier :
            Let(filter_rows(crif_bucket, <<<<"Qualifier", <<qualifier>>>>>>),
                LAMBDA crif_qualifier :
            Let(sum_sensitivities(crif_qualifier), LAMBDA sensitivities :
                IF risk_class \in {"Risk_EquityVol", "Risk_CommodityVol"}
                THEN Let(HistoricalVolRisk(
                             IF risk_class = "Risk_EquityVol" THEN EQUITY_HVR
                             ELSE COMMODITY_HVR,
                             rw, sensitivities),
                         LAMBDA vr_i :
                     Let(concentration_threshold(vr_i, vt), LAMBDA vcr :
                         << << FScale(vr_i,
                                      (IF risk_class = "Risk_EquityVol"
                                       THEN IF bucket = 12 THEN EQUITY_VRW_BUCKET_12
                                            ELSE EQUITY_VRW
                                       ELSE COMMODITY_VRW) * vcr,
                                      100 * CRScale),
                               vcr, "" >> >>))
                ELSE Let(concentration_threshold(sensitivities, vt), LAMBDA vcr :
                     Let(unique_column_values(crif_qualifier, "Label2"),
                         LAMBDA label2_list :
                     Let(tenor_list(crif_qualifier), LAMBDA tenors :
                     Concat(collect([l \in 1..Len(label2_list) |->
                         collect([i \in 1..Len(tenors) |->
                             << FScale(sum_sensitivities(filter_rows(crif_qualifier,
                                           << <<"Label1", <<tenors[i]>>>>,
                                              <<"Label2", <<label2_list[l]>>>> >>)),
                                       (IF risk_class = "Risk_CreditVol"
                                        THEN CREDIT_Q_V_RW ELSE CREDIT_NON_Q_VRW) * vcr,
                                       100 * CRScale),
                                vcr,
                                IF bucket = 0 THEN "Res"
                                ELSE IF risk_class = "Risk_CreditVol" THEN qualifier
                                ELSE label2_list[l] >>])]))))))))])),
        LAMBDA e :
    Let(k_vega(self.wnc, risk_class, Column(e, 1), Some(Column(e, 2)),
               Some(ToString(bucket)),
               IF risk_class \in {"Risk_EquityVol", "Risk_CommodityVol"} \/ e = <<>>
               THEN None ELSE Some(Column(e, 3))),
        LAMBDA k :
        [k |-> k, s |-> IF k = Panic THEN 0 ELSE ClampedSum(Column(e, 1), k)]))))))

\* the Equity, Commodity, Credit branch of vega_margin: the value added to
\* the Vega cell of the risk class of risk_class
bucketed_vega_value(self, risk_class) ==
    Let(filter_rows(self.crif, <<<<"RiskType", <<risk_class>>>>>>), LAMBDA crif_risk_type :
    Let(bucket_list(crif_risk_type), LAMBDA buckets :
    \* per[i]: the k and clamped sum of the iteration of buckets[i]
    Let(collect([i \in 1..Len(buckets) |->
            BucketVega(self, risk_class, crif_risk_type, buckets[i])]),
        LAMBDA per :
    Let(SelectSeq(buckets, LAMBDA b : b # 0), LAMBDA bucket_list_non_res :
    Let(Len(bucket_list_non_res), LAMBDA m :
    \* gamma[(i - 1) * m + j]: the gamma of the pair (i, j) of the loops
    Let(collect([p \in 1..(m * m) |->
            IF (p - 1) \div m = (p - 1) % m THEN 0
            ELSE UnwrapOr(wnc_gamma(self.wnc, risk_class,
                              ToString(bucket_list_non_res[((p - 1) \div m) + 1]),
                              ToString(bucket_list_non_res[((p - 1) % m) + 1])), 0)]),
        LAMBDA gamma :
        LET k_res == FSum(Column(SelectSeq(
                         collect([i \in 1..Len(buckets) |-> <<per[i].k, buckets[i]>>]),
                         LAMBDA x : x[2] = 0), 1))
            list_k == Column(SelectSeq(
                          collect([i \in 1..Len(buckets) |-> <<per[i].k, buckets[i]>>]),
                          LAMBDA x : x[2] # 0), 1)
            list_s == collect([i \in 1..Len(buckets) |-> per[i].s])
            cross == collect([p \in 1..(m * m) |->
                         IF (p - 1) \div m = (p - 1) % m THEN SBZero
                         ELSE SBMulInt(FMulSB(list_s[((p - 1) \div m) + 1],
                                              list_s[((p - 1) % m) + 1]), gamma[p])])
        IN  IF \/ \E i \in 1..Len(buckets) : per[i].k = Panic
               \/ \E p \in 1..(m * m) : gamma[p] = Panic
            THEN Panic
            ELSE FAdd(IF HasNaN(list_k) \/ (m > 1 /\ HasNaN(SubSeq(list_s, 1, m)))
                      THEN NaN
                      ELSE FSqrtSB(SBAdd(SumSquares(list_k, CorrScale), SBSum(cross)),
                                   CorrScale),
                      k_res)))))))

\* the risk class whose Vega cell a risk type of vega_margin feeds
VegaCell(risk_class) ==
    IF risk_class = "Risk_FXVol" THEN "FX" ELSE DeltaCell(risk_class)

\* Vega Margin for non-Rates risk classes
vega_margin(self) ==
    Let(SelectSeq(self.list_risk_types,
            LAMBDA rc : contains(<<"Risk_CreditVol", "Risk_CreditVolNonQ",
                                   "Risk_EquityVol", "Risk_CommodityVol",
                                   "Risk_FXVol">>, rc)),
        LAMBDA list_risk_classes :
    \* vals[i]: what the iteration of list_risk_classes[i] adds
    Let(collect([i \in 1..Len(list_risk_classes) |->
            IF list_risk_classes[i] = "Risk_FXVol"
            THEN fx_vega_value(self, list_risk_classes[i])
            ELSE bucketed_vega_value(self, list_risk_classes[i])]),
        LAMBDA vals :
        IF \E i \in 1..Len(vals) : vals[i] = Panic THEN Unwound
        ELSE collect_map([rc \in DOMAIN init_margin_dict |->
                 [init_margin_dict[rc] EXCEPT !.Vega =
                     FSum(<<@>> \o Column(SelectSeq(
                         collect([i \in 1..Len(vals) |-> <<vals[i], list_risk_classes[i]>>]),
                         LAMBDA x : VegaCell(x[2]) = rc), 1))]])))

\* IR_HVR of v2_5.rs, the file in scope, in hundredths
IR_HVR == 44

\* Normal::new(0.0, 1.0).inverse_cdf(0.995).powi(2) - 1.0 = 5.634897, in
\* millionths
LambdaBase == 5634897
LambdaScale == 1000000

\* x / 10^6
SBDivMillion(x) == SBDivNat(SBDivNat(x, 1000), 1000)

\* scaling_func(&tenor) * sensitivities, in cents
Cvr(tenor, sensitivities) ==
    IF IsNaN(sensitivities) THEN NaN
    ELSE SBToInt(SBDivMillion(SBMulInt(SB(sensitivities), scaling_func(tenor))))

\* the <<cvr, index>> entries of one currency of ir_curvature_margin
CurvatureEntries(crif_currency, risk_types) ==
    Concat(collect([r \in 1..Len(risk_types) |->
        Let(risk_types[r], LAMBDA risk_class :
            IF risk_class \notin {"Risk_IRVol", "Risk_InflationVol"} THEN <<>>
            ELSE
            Let(filter_rows(crif_currency, <<<<"RiskType", <<risk_class>>>>>>),
                LAMBDA crif_risk_class :
            Let(unique_column_values(crif_risk_class, "Label1"), LAMBDA tenors :
                collect([t \in 1..Len(tenors) |->
                    Let(filter_rows(crif_risk_class, <<<<"Label1", <<tenors[t]>>>>>>),
                        LAMBDA crif_tenor :
                        <<Cvr(tenors[t], sum_sensitivities(crif_tenor)),
                          IF risk_class = "Risk_IRVol" THEN tenors[t] ELSE "Inf">>)]))))]))

\* the exception check without `currency == &self.calculation_currency`
CurvatureException_any_currency(self, crif_currency, currency) ==
    /\ unique_column_values(crif_currency, "RiskType") = <<"Risk_InflationVol">>
    /\ sum_sensitivities(crif_currency) = 0

\* the exception check of ir_curvature_margin on the rows of one currency
CurvatureException(self, crif_currency, currency) ==
    /\ unique_column_values(crif_currency, "RiskType") = <<"Risk_InflationVol">>
    /\ sum_sensitivities(crif_currency) = 0
    /\ currency = self.calculation_currency

\* one pass of the loop over the currencies: whether it returns, and else
\* its cvr_ik, k and s
CurvatureCurrency(self, currency) ==
    Let(filter_rows(self.crif, << <<"RiskType", <<"Risk_IRVol", "Risk_InflationVol">>>>,
                                  <<"Qualifier", <<currency>>>> >>),
        LAMBDA crif_currency :
        IF CurvatureException(self, crif_currency, currency)
        THEN [returns |-> TRUE, cvr_ik |-> <<>>, k |-> 0, s |-> 0]
        ELSE
        Let(CurvatureEntries(crif_currency,
                             unique_column_values(crif_currency, "RiskType")),
            LAMBDA entries :
        Let(Column(entries, 1), LAMBDA cvr_ik :
        Let(k_curvature(self.wnc, "Rates", cvr_ik, None, Some(Column(entries, 2))),
            LAMBDA k :
            [returns |-> FALSE, cvr_ik |-> cvr_ik, k |-> k,
             s |-> IF k = Panic THEN Panic ELSE ClampedSum(cvr_ik, k)]))))

\* (cvr_sum / cvr_abs_sum).min(0.0) when cvr_abs_sum != 0.0, else 0.0, in
\* millionths; a NaN quotient is passed over by min
CurvatureTheta(cvr_sum, cvr_abs_sum) ==
    IF IsNaN(cvr_sum) \/ IsNaN(cvr_abs_sum) \/ cvr_abs_sum = 0 \/ cvr_sum >= 0 THEN 0
    ELSE -SBToInt(SBDivNat(SBMulInt(SB(-cvr_sum), LambdaScale), cvr_abs_sum))

\* k.sqrt() of k = sum of list_k^2 + sum over i # j of
\* list_s[i] * list_s[j] * gamma^2, in cents
CurvatureRoot(list_k, list_s) ==
    IF HasNaN(list_k) \/ HasNaN(list_s) THEN NaN
    ELSE Let(IR_GAMMA_DIFF_CCY[UseCrate] * IR_GAMMA_DIFF_CCY[UseCrate], LAMBDA gamma2 :
         Let(Len(list_s), LAMBDA n :
             FSqrtSB(SBAdd(SumSquares(list_k, CorrScale * CorrScale),
                           SBSum(collect([p \in 1..(n * n) |->
                               Let(((p - 1) \div n) + 1, LAMBDA i :
                               Let(((p - 1) % n) + 1, LAMBDA j :
                                   IF i = j THEN SBZero
                                   ELSE SBMulInt(FMulSB(list_s[i], list_s[j]), gamma2)))]))),
                     CorrScale * CorrScale)))

\* (cvr_sum + lambda * k.sqrt()).max(0.0) / IR_HVR.powi(2) of the passes of
\* the loop, none of which returned or panicked; max passes over a NaN
IrCurvatureCharge(passes) ==
    Let(Concat(collect([i \in 1..Len(passes) |-> passes[i].cvr_ik])), LAMBDA cvrs :
    Let(FSum(cvrs), LAMBDA cvr_sum :
    Let(FSum(collect([i \in 1..Len(cvrs) |-> FAbs(cvrs[i])])), LAMBDA cvr_abs_sum :
    Let(CurvatureTheta(cvr_sum, cvr_abs_sum), LAMBDA theta :
    Let(SBToInt(SBDivMillion(SBMulInt(SB(LambdaBase), LambdaScale + theta))) - theta,
        LAMBDA lambda :
    Let(CurvatureRoot(collect([i \in 1..Len(passes) |-> passes[i].k]),
                      collect([i \in 1..Len(passes) |-> passes[i].s])), LAMBDA root :
        IF IsNaN(cvr_sum) \/ IsNaN(root) THEN 0
        ELSE FScale(Max(0, cvr_sum + SBToInt(SBDivMillion(SBMulInt(SB(root), lambda)))),
                    CorrScale * CorrScale, IR_HVR * IR_HVR)))))))

ir_curvature_margin(self) ==
    IF ~ \E rt \in {"Risk_IRVol", "Risk_InflationVol"} :
             contains(self.list_risk_types, rt)
    THEN init_margin_dict
    ELSE
    Let(unique_column_values(self.crif, "Qualifier"), LAMBDA currency_list :
    Let(collect([c \in 1..Len(currency_list) |->
                    CurvatureCurrency(self, currency_list[c])]), LAMBDA passes :
        \* the first pass that returns or panics ends the loop
        Let({c \in 1..Len(passes) : passes[c].returns \/ passes[c].k = Panic},
            LAMBDA ends :
            IF ends # {} /\ passes[CHOOSE c \in ends : \A d \in ends : c <= d].returns THEN init_margin_dict
            ELSE IF ends # {} THEN Unwound
            ELSE [init_margin_dict EXCEPT
                      !["Rates"]["Curvature"] = FAdd(@, IrCurvatureCharge(passes))])))

\* an element of list_ws or vr as the loops form it: the tenor and index
\* pushed with it, the rows of the table whose amounts it sums, and the sum
Element(risk_class, tenor, index, crif_tenor) ==
    [risk_class |-> risk_class, tenor |-> tenor, index |-> index,
     rows |-> IF crif_tenor = <<>> THEN <<>> ELSE Tail(crif_tenor),
     sensitivities |-> sum_sensitivities(crif_tenor)]

\* the elements that one currency of ir_delta_margin pushes to list_ws
IrDeltaElements(crif_currency) ==
    Let(unique_column_values(crif_currency, "RiskType"), LAMBDA risk_types_in_currency :
    Concat(collect([r \in 1..Len(risk_types_in_currency) |->
        Let(risk_types_in_currency[r], LAMBDA risk_class :
        Let(filter_rows(crif_currency, <<<<"RiskType", <<risk_class>>>>>>),
            LAMBDA crif_risk_class :
            IF risk_class = "Risk_Inflation"
            THEN <<Element(risk_class, "Inf", "Inf", crif_risk_class)>>
            ELSE IF risk_class = "Risk_XCcyBasis"
            THEN <<Element(risk_class, "XCcy", "XCcy", crif_risk_class)>>
            ELSE IF risk_class = "Risk_IRCurve"
            THEN Let(unique_column_values(crif_risk_class, "Label2"),
                     LAMBDA subcurve_list :
                 Concat(collect([c \in 1..Len(subcurve_list) |->
                     Let(filter_rows(crif_risk_class,
                                     <<<<"Label2", <<subcurve_list[c]>>>>>>),
                         LAMBDA crif_subcurve :
                     Let(tenor_list(crif_subcurve), LAMBDA tenors :
                         collect([t \in 1..Len(tenors) |->
                             Element(risk_class, tenors[t], subcurve_list[c],
                                     filter_rows(crif_subcurve,
                                         <<<<"Label1", <<tenors[t]>>>>>>))])))])))
            ELSE <<>>))])))

\* the elements that one qualifier of a credit risk class pushes to list_ws
\* in delta_margin
CreditElements(risk_class, crif_qualifier) ==
    Let(unique_column_values(crif_qualifier, "Label2"), LAMBDA label2_list :
    Let(tenor_list(crif_qualifier), LAMBDA tenors :
        Concat(collect([l \in 1..Len(label2_list) |->
            collect([i \in 1..Len(tenors) |->
                Element(risk_class, tenors[i], label2_list[l],
                        filter_rows(crif_qualifier,
                            << <<"Label1", <<tenors[i]>>>>,
                               <<"Label2", <<label2_list[l]>>>> >>))])]))))

\* the elements that one currency of ir_vega_margin pushes to vr
IrVegaElements(crif_currency) ==
    Let(unique_column_values(crif_currency, "RiskType"), LAMBDA risk_types_in_currency :
    Concat(collect([r \in 1..Len(risk_types_in_currency) |->
        Let(risk_types_in_currency[r], LAMBDA risk_class :
            IF risk_class \notin {"Risk_IRVol", "Risk_InflationVol"} THEN <<>>
            ELSE
            Let(filter_rows(crif_currency, <<<<"RiskType", <<risk_class>>>>>>),
                LAMBDA crif_risk_class :
            Let(tenor_list(crif_risk_class), LAMBDA tenors :
                collect([t \in 1..Len(tenors) |->
                    Element(risk_class, tenors[t],
                            IF risk_class = "Risk_IRVol" THEN tenors[t] ELSE "Inf",
                            filter_rows(crif_risk_class,
                                        <<<<"Label1", <<tenors[t]>>>>>>))]))))])))

\* ir_vega_margin, vega_margin, ir_curvature_margin and curvature_margin as
\* simm_risk_class merges them.  Each returns the zero dictionary when the
\* CRIF holds none of its volatility risk types; the curvature bodies are
\* outside this model, so the CRIFs given to from_crif hold no volatility
\* row (reaching one stops the check)
vega_curvature_margins(self) ==
    IF ~ \E rt \in {"Risk_IRVol", "Risk_InflationVol", "Risk_CreditVol",
                    "Risk_CreditVolNonQ", "Risk_EquityVol", "Risk_CommodityVol",
                    "Risk_FXVol"} : contains(self.list_risk_types, rt)
    THEN init_margin_dict
    ELSE CHOOSE outside \in {} : TRUE

(***************************************************************************)
(* agg_margins.rs.  self is the SIMM struct: [crif_list, calc_currency,    *)
(* exchange_rate, wnc]; the exchange rate is a whole number                *)
(***************************************************************************)
filter_crif_by_column(self, column_name, value) ==
    filter_rows(self.crif_list, <<<<column_name, <<value>>>>>>)

\* *value *= self.exchange_rate * self.exchange_rate: the variant that applies
\* the rate twice
apply_exchange_rate_twice(value, rate) == FScale(value, rate * rate, 1)

\* *value *= self.exchange_rate
apply_exchange_rate(value, rate) == FScale(value, rate, 1)

\* the margins by risk class and measure, times the exchange rate
simm_risk_class(self, crif) ==
    Let(MarginByRiskClass(crif, self.calc_currency, self.wnc), LAMBDA margin :
    Let(ir_delta_margin(margin), LAMBDA ir_delta :
    Let(delta_margin(margin), LAMBDA delta :
    Let(vega_curvature_margins(margin), LAMBDA vol :
    Let(base_corr_margin(margin), LAMBDA base_corr :
        LET Get(d, rc, m) == IF m \in DOMAIN d[rc] THEN d[rc][m] ELSE 0
        IN  IF Panicked(ir_delta) \/ Panicked(delta) THEN Unwound
            ELSE collect_map([rc \in DOMAIN init_margin_dict |->
                     collect_map([m \in {Measures(rc)[i] : i \in 1..Len(Measures(rc))} |->
                         apply_exchange_rate(
                             FSum(<<Get(ir_delta, rc, m), Get(delta, rc, m),
                                    Get(vol, rc, m), Get(base_corr, rc, m)>>),
                             self.exchange_rate)])]))))))

\* sum of the measures of a risk class (m.values().sum())
RiskClassTotal(dict_results, risk_class) ==
    FSum(collect([i \in 1..Len(Measures(risk_class)) |->
             dict_results[risk_class][Measures(risk_class)[i]]]))

\* sum over i, j of psi * IM_i * IM_j, exactly, in cents^2 / 100
SimmProductRadicand(self, simm_by_risk_class) ==
    Let(collect([i \in 1..6 |-> RiskClassTotal(simm_by_risk_class, RiskClasses[i])]),
        LAMBDA im :
        IF HasNaN(im) THEN [nan |-> TRUE, radicand |-> SBZero]
        ELSE [nan |-> FALSE,
              radicand |-> SBSum(collect([p \in 1..36 |->
                  SBMulInt(FMulSB(im[((p - 1) \div 6) + 1], im[((p - 1) % 6) + 1]),
                           IF (p - 1) \div 6 = (p - 1) % 6 THEN CorrScale
                           ELSE UnwrapOr(wnc_psi(self.wnc,
                                    RiskClasses[((p - 1) \div 6) + 1],
                                    RiskClasses[((p - 1) % 6) + 1]), 0))]))])

simm_product(self, product_class) ==
    Let(filter_crif_by_column(self, "ProductClass", product_class), LAMBDA crif :
    Let(simm_risk_class(self, crif), LAMBDA simm_by_risk_class :
        IF Panicked(simm_by_risk_class) THEN Unwound
        ELSE Let(SimmProductRadicand(self, simm_by_risk_class), LAMBDA r :
                 Ok(IF r.nan THEN NaN ELSE FSqrtSB(r.radicand, CorrScale)))))

\* a HashMap<String, String> row is a function on its keys
RowGet(row, key) == IF key \in DOMAIN row THEN row[key] ELSE ""

\* the variant that writes a measure row only for a measure that is not zero
results_product_class_nonzero_only(self, product_class, order) ==
    Let(filter_crif_by_column(self, "ProductClass", product_class), LAMBDA crif :
    Let(simm_risk_class(self, crif), LAMBDA dict_results :
        IF Panicked(dict_results) THEN Unwound
        ELSE Ok(Concat(collect([r \in 1..Len(order.rc) |->
                 Let(order.rc[r], LAMBDA risk_class :
                 Let(dict_results[risk_class], LAMBDA dic_sensi_type :
                 Let(SelectSeq(order.ms, LAMBDA m : /\ m \in DOMAIN dic_sensi_type
                                                    /\ dic_sensi_type[m] # 0),
                     LAMBDA ms :
                     IF ms = <<>> THEN <<>>
                     ELSE collect([i \in 1..Len(ms) |->
                              ("Product Class" :> product_class)
                              @@ ("Risk Class" :> risk_class)
                              @@ ("Risk Measure" :> ms[i])
                              @@ ("SIMM_RiskMeasure" :> fmt2(dic_sensi_type[ms[i]]))])
                          \o << ("Product Class" :> product_class)
                                @@ ("Risk Class" :> risk_class)
                                @@ ("SIMM_RiskClass" :>
                                        fmt2(RiskClassTotal(dict_results,
                                                            risk_class))) >>)))])))))

\* order: the iteration order of the hash maps, [rc |-> a permutation of the
\* risk classes, ms |-> a permutation of the measures]
results_product_class(self, product_class, order) ==
    Let(filter_crif_by_column(self, "ProductClass", product_class), LAMBDA crif :
    Let(simm_risk_class(self, crif), LAMBDA dict_results :
        IF Panicked(dict_results) THEN Unwound
        ELSE Ok(Concat(collect([r \in 1..Len(order.rc) |->
                 Let(order.rc[r], LAMBDA risk_class :
                 Let(dict_results[risk_class], LAMBDA dic_sensi_type :
                 Let(SelectSeq(order.ms, LAMBDA m : m \in DOMAIN dic_sensi_type),
                     LAMBDA ms :
                     IF \A i \in 1..Len(ms) : dic_sensi_type[ms[i]] = 0 THEN <<>>
                     ELSE collect([i \in 1..Len(ms) |->
                              ("Product Class" :> product_class)
                              @@ ("Risk Class" :> risk_class)
                              @@ ("Risk Measure" :> ms[i])
                              @@ ("SIMM_RiskMeasure" :> fmt2(dic_sensi_type[ms[i]]))])
                          \o << ("Product Class" :> product_class)
                                @@ ("Risk Class" :> risk_class)
                                @@ ("SIMM_RiskClass" :>
                                        fmt2(RiskClassTotal(dict_results,
                                                            risk_class))) >>)))])))))

\* sum of the AmountUSD of rows that have one and whose AmountUSD parses
RECURSIVE SumAmounts(_, _)
SumAmounts(rows, amount_idx) ==
    IF rows = <<>> THEN 0
    ELSE Let(IF amount_idx <= Len(rows[1])
             THEN parse_f64(rows[1][amount_idx]) ELSE None, LAMBDA num :
         Let(SumAmounts(Tail(rows), amount_idx), LAMBDA rest :
             IF num = None THEN rest ELSE FAdd(num[1], rest)))

addon_margin(self) ==
    Let(get_column_index(self.crif_list, "AmountUSD"), LAMBDA amount_idx :
    Let(get_column_index(self.crif_list, "RiskType"), LAMBDA risk_type_idx :
    Let(get_column_index(self.crif_list, "Qualifier"), LAMBDA qualifier_idx :
        IF amount_idx = None THEN Err("AmountUSD column not found")
        ELSE IF risk_type_idx = None THEN Err("RiskType column not found")
        ELSE IF qualifier_idx = None THEN Err("Qualifier column not found")
        ELSE
        Let(SumAmounts(SelectSeq(Tail(self.crif_list), LAMBDA row :
                           /\ risk_type_idx[1] <= Len(row)
                           /\ row[risk_type_idx[1]] = "Param_AddOnFixedAmount"),
                       amount_idx[1]),
            LAMBDA fixed :
        Let(SelectSeq(Tail(self.crif_list), LAMBDA row :
                /\ risk_type_idx[1] <= Len(row)
                /\ qualifier_idx[1] <= Len(row)
                /\ amount_idx[1] <= Len(row)
                /\ row[risk_type_idx[1]] \in {"Param_AddOnNotionalFactor", "Notional"}),
            LAMBDA used :
        Let(unique_list(collect([i \in 1..Len(used) |-> used[i][qualifier_idx[1]]])),
            LAMBDA qualifiers :
            \* amount / 100 summed, kept as the sum of the amounts (in percent)
            LET Sum(q, risk_type) ==
                    FSum(collect([i \in 1..Len(used) |->
                        IF /\ used[i][qualifier_idx[1]] = q
                           /\ used[i][risk_type_idx[1]] = risk_type
                        THEN UnwrapOr(parse_f64(used[i][amount_idx[1]]), 0) ELSE 0]))
            IN  Ok(FSum(<<fixed>> \o collect([i \in 1..Len(qualifiers) |->
                    \* factor * notional, in cents
                    Let(Sum(qualifiers[i], "Param_AddOnNotionalFactor"), LAMBDA factor :
                    Let(Sum(qualifiers[i], "Notional"), LAMBDA notional :
                        IF IsNaN(factor) \/ IsNaN(notional) THEN NaN
                        ELSE SBToInt(SBDivNat(FMulSB(factor, notional),
                                              Unit * 100))))])))))))))

\* f64::round to a whole number of units, halves away from zero; the
\* `* 100.0 / 100.0` that follows it changes nothing
RoundUnits(x) ==
    IF IsNaN(x) THEN NaN ELSE Sgn(x) * (((Abs(x) + (Unit \div 2)) \div Unit) * Unit)

\* addon_ms += simm_prod * (ms_result - 1.0) without the test of ms_result:
\* the variant that charges a product class with no multiplier row
multiplier_addon_unguarded(simm_prod, ms_result) ==
    IF IsNaN(ms_result) THEN NaN ELSE FScale(simm_prod, ms_result - Unit, Unit)

\* if ms_result != 0.0 { addon_ms += simm_prod * (ms_result - 1.0) }: the
\* amount the product class adds to addon_ms
multiplier_addon(simm_prod, ms_result) ==
    IF ms_result = 0 THEN 0
    ELSE IF IsNaN(ms_result) THEN NaN
    ELSE FScale(simm_prod, ms_result - Unit, Unit)

\* one iteration of the product-class loop of calculate_simm
ProductClassStep(self, product_class, order) ==
    Let(results_product_class(self, product_class, order), LAMBDA results :
    Let(simm_product(self, product_class), LAMBDA simm_result :
    Let(get_column_index(self.crif_list, "AmountUSD"), LAMBDA amount_idx :
    Let(get_column_index(self.crif_list, "RiskType"), LAMBDA risk_type_idx :
    Let(get_column_index(self.crif_list, "Qualifier"), LAMBDA qualifier_idx :
        IF Panicked(results) \/ Panicked(simm_result)
           \/ amount_idx = None \/ risk_type_idx = None \/ qualifier_idx = None
        THEN Unwound
        ELSE
        Let(SumAmounts(SelectSeq(Tail(self.crif_list), LAMBDA row :
                           /\ risk_type_idx[1] <= Len(row)
                           /\ qualifier_idx[1] <= Len(row)
                           /\ row[risk_type_idx[1]] = "Param_ProductClassMultiplier"
                           /\ row[qualifier_idx[1]] = product_class),
                       amount_idx[1]),
            LAMBDA ms_result :
            [product_class |-> product_class,
             rows |-> collect([i \in 1..Len(results.v) |->
                          results.v[i] @@ ("SIMM_ProductClass" :> fmt2(simm_result.v))]),
             simm_prod |-> simm_result.v,
             ms_result |-> ms_result,
             addon_ms |-> multiplier_addon(simm_result.v, ms_result)]))))))

\* a header that shows the Add-On column whatever the add-on is
BreakdownHeader_always_addon(with_addon) ==
    <<"SIMM Total", "Add-On", "Product Class", "SIMM_ProductClass", "Risk Class",
      "SIMM_RiskClass", "Risk Measure", "SIMM_RiskMeasure">>

BreakdownHeader(with_addon) ==
    <<"SIMM Total">> \o (IF with_addon THEN <<"Add-On">> ELSE <<>>)
    \o <<"Product Class", "SIMM_ProductClass", "Risk Class", "SIMM_RiskClass",
         "Risk Measure", "SIMM_RiskMeasure">>

\* Main SIMM calculation: [status, simm, simm_break_down] and the locals
\* addon_ms, addon_margin and the per-product-class values
calculate_simm(self, order) ==
    Let(product_list(self.crif_list), LAMBDA product_classes :
    \* steps[i]: what the iteration of product_classes[i] produced
    Let(collect([i \in 1..Len(product_classes) |->
            ProductClassStep(self, product_classes[i], order)]),
        LAMBDA steps :
        IF \E i \in 1..Len(steps) : Panicked(steps[i]) THEN [status |-> "panic"]
        ELSE
        Let(addon_margin(self), LAMBDA addon :
        IF ~addon.ok THEN [status |-> "err", e |-> addon.e]
        ELSE
        LET n == Len(steps)
            addon_ms == FSum(collect([i \in 1..n |-> steps[i].addon_ms]))
            rounded == RoundUnits(FAdd(addon_ms, addon.v))
            simm == FAdd(FSum(collect([i \in 1..n |-> steps[i].simm_prod])), rounded)
            with_addon == ~IsNaN(rounded) /\ Abs(rounded) > 0
            lead == <<fmt2(simm)>> \o (IF with_addon THEN <<fmt2(rounded)>> ELSE <<>>)
            all_results == Concat(collect([i \in 1..n |-> steps[i].rows]))
            rows == IF n = 0 THEN <<lead \o <<"", "0", "", "0", "", "0">>>>
                    ELSE collect([i \in 1..Len(all_results) |->
                             lead \o <<RowGet(all_results[i], "Product Class"),
                                       RowGet(all_results[i], "SIMM_ProductClass"),
                                       RowGet(all_results[i], "Risk Class"),
                                       RowGet(all_results[i], "SIMM_RiskClass"),
                                       RowGet(all_results[i], "Risk Measure"),
                                       RowGet(all_results[i], "SIMM_RiskMeasure")>>])
        IN  [status |-> "ok", simm |-> simm,
             simm_break_down |-> <<BreakdownHeader(with_addon)>> \o rows,
             addon_ms |-> addon_ms, addon_margin |-> rounded,
             products |-> steps])))

(***************************************************************************)
(* The state machine: one call of SIMM::from_crif                          *)
(***************************************************************************)
VARIABLES crif_list, calc_currency, exchange_rate, wnc,
          pc, simm, simm_break_down, locals

vars == <<crif_list, calc_currency, exchange_rate, wnc,
          pc, simm, simm_break_down, locals>>

Self == [crif_list |-> crif_list, calc_currency |-> calc_currency,
         exchange_rate |-> exchange_rate, wnc |-> wnc]

NoLocals == [addon_ms |-> 0, addon_margin |-> 0, products |-> <<>>]

\* ---- bounds of the inputs ----
\* rows of a sensitivity CRIF
MaxRows == 2
\* parameter rows of an add-on CRIF
MaxParamRows == 2
\* exchange rates 1..MaxRate
MaxRate == 2
\* factors alpha in 0..MaxAlpha applied to the exchange rate
MaxAlpha == 2

Header == <<"ProductClass", "RiskType", "Qualifier", "Bucket", "Label1", "Label2",
            "AmountUSD">>

\* the header of test_simm_basic, and one without the amount column
HeaderNoLabel2 == <<"ProductClass", "RiskType", "Qualifier", "Bucket", "Label1",
                    "AmountUSD">>
HeaderNoAmount == <<"ProductClass", "RiskType", "Qualifier", "Bucket", "Label1",
                    "Label2">>

S1Row == <<"Rates", "Risk_IRCurve", "USD", "1", "2w", "", "1000">>

SensRows ==
    << S1Row,
       <<"Rates", "Risk_IRCurve", "USD", "1", "2w", "OIS", "1000">>,
       <<"Rates", "Risk_IRCurve", "USD", "1", "1y", "Libor3m", "-2000.5">>,
       <<"Rates", "Risk_Inflation", "USD", "", "", "", "1000">>,
       <<"Rates", "Risk_XCcyBasis", "EUR", "", "", "", "300">>,
       <<"Rates", "Risk_IRCurve", "JPY", "2", "5Y", "OIS", "4000">>,
       <<"Rates", "Risk_IRCurve", "BRL", "3", "10y", "OIS", "nan">>,
       <<"Rates", "Risk_FX", "EUR", "", "", "", "-700">>,
       <<"Equity", "Risk_Equity", "ACME", "1", "", "", "900">>,
       <<"Equity", "Risk_Equity", "INDEX", "11", "", "", "-250">>,
       <<"Commodity", "Risk_Commodity", "Crude", "2", "", "", "120.75">>,
       <<"Credit", "Risk_CreditQ", "ISSUER", "1", "5y", "", "60">>,
       <<"Credit", "Risk_CreditNonQ", "RMBS", "Residual", "5y", "", "45">> >>

\* the rows of xs at the positions in S, in their order
Pick(xs, S) ==
    LET sel == SelectSeq(collect([i \in 1..Len(xs) |-> i]), LAMBDA i : i \in S)
    IN  collect([j \in 1..Len(sel) |-> xs[sel[j]]])

\* the CRIF bodies of at most n rows of xs
Bodies(xs, n) ==
    {Pick(xs, S) : S \in {T \in SUBSET (1..Len(xs)) : Cardinality(T) <= n}}

Reverse(s) == collect([i \in 1..Len(s) |-> s[Len(s) + 1 - i]])

\* iteration orders of the HashMaps of risk classes and of measures; the
\* program fixes none (std::collections::HashMap, RandomState)
HashOrders ==
    {[rc |-> RiskClasses, ms |-> <<"Delta", "Vega", "Curvature", "BaseCorr">>],
     [rc |-> Reverse(RiskClasses),
      ms |-> Reverse(<<"Delta", "Vega", "Curvature", "BaseCorr">>)]}

Config(crif, ccy, rate, v) ==
    [crif_list |-> crif, calc_currency |-> ccy, exchange_rate |-> rate, wnc |-> v]

\* sensitivity CRIFs under every provider and rate, and the degenerate tables
Inputs ==
    {Config(<<Header>> \o b, "USD", r, v) :
        b \in Bodies(SensRows, MaxRows), r \in 1..MaxRate, v \in Versions}
    \cup {Config(c, "USD", 1, "2_5") :
             c \in {<<>>, <<HeaderNoAmount>>,
                    <<HeaderNoAmount, <<"Rates", "Risk_IRCurve", "USD", "1", "2w", "OIS">>>>,
                    <<HeaderNoLabel2, <<"Rates", "Risk_IRCurve", "USD", "1", "2w", "1000">>>>}}

InitWith(inputs) ==
    /\ \E inp \in inputs :
          /\ crif_list = inp.crif_list
          /\ calc_currency = inp.calc_currency
          /\ exchange_rate = inp.exchange_rate
          /\ wnc = inp.wnc
    /\ pc = "call"
    /\ simm = 0
    /\ simm_break_down = <<>>
    /\ locals = NoLocals

Init == InitWith(Inputs)

\* SIMM::from_crif up to the call of calculate_simm: the empty table is
\* refused, otherwise the struct is built with simm 0.0 and no breakdown
FromCrif ==
    /\ pc = "call"
    /\ pc' = IF crif_list = <<>> THEN "err" ELSE "constructed"
    /\ simm' = 0
    /\ simm_break_down' = <<>>
    /\ UNCHANGED <<crif_list, calc_currency, exchange_rate, wnc, locals>>

\* SIMM::calculate_simm, and the return of from_crif
CalculateSimm ==
    /\ pc = "constructed"
    /\ \E order \in HashOrders : \E r \in {calculate_simm(Self, order)} :
              /\ pc' = IF r.status = "ok" THEN "done" ELSE r.status
              /\ simm' = IF r.status = "ok" THEN r.simm ELSE simm
              /\ simm_break_down' = IF r.status = "ok" THEN r.simm_break_down
                                    ELSE simm_break_down
              /\ locals' = IF r.status = "ok"
                           THEN [addon_ms |-> r.addon_ms,
                                 addon_margin |-> r.addon_margin,
                                 products |-> r.products]
                           ELSE locals
    /\ UNCHANGED <<crif_list, calc_currency, exchange_rate, wnc>>

Next == FromCrif \/ CalculateSimm

Spec == Init /\ [][Next]_vars

(***************************************************************************)
(* Further input families, each with its own initial condition             *)
(***************************************************************************)
\* bucketed sensitivities: per risk type a row in the literal bucket 0, a
\* Residual row, rows in two numeric buckets and, for Equity and Credit, a
\* second row in the first of them, in any combination
EquityRows ==
    << <<"Equity", "Risk_Equity", "ZERO", "0", "", "", "300">>,
       <<"Equity", "Risk_Equity", "RES", "Residual", "", "", "700">>,
       <<"Equity", "Risk_Equity", "ACME", "1", "", "", "900">>,
       <<"Equity", "Risk_Equity", "INDEX", "2", "", "", "-250">>,
       <<"Equity", "Risk_Equity", "ACME2", "1", "", "", "-400">> >>

CommodityRows ==
    << <<"Commodity", "Risk_Commodity", "Coal", "0", "", "", "300">>,
       <<"Commodity", "Risk_Commodity", "Misc", "Residual", "", "", "700">>,
       <<"Commodity", "Risk_Commodity", "Crude", "2", "", "", "900">>,
       <<"Commodity", "Risk_Commodity", "Gas", "3", "", "", "-250">> >>

CreditRows ==
    << <<"Credit", "Risk_CreditQ", "ISSUER0", "0", "5y", "A", "300">>,
       <<"Credit", "Risk_CreditQ", "ISSUER1", "Residual", "5y", "A", "700">>,
       <<"Credit", "Risk_CreditQ", "ISSUER2", "1", "5y", "A", "900">>,
       <<"Credit", "Risk_CreditQ", "ISSUER3", "2", "1y", "A", "-250">>,
       <<"Credit", "Risk_CreditQ", "ISSUER4", "1", "5y", "A", "-400">> >>

BucketInputs ==
    {Config(<<Header>> \o b, "USD", 1, v) :
        b \in UNION {Bodies(rows, Len(rows)) \ {<<>>} :
                        rows \in {EquityRows, CommodityRows, CreditRows}},
        v \in Versions}

InitBuckets == InitWith(BucketInputs)

SpecBuckets == InitBuckets /\ [][Next]_vars

\* add-on parameter rows after no, one or two sensitivity rows
ParamRows ==
    << <<"", "Param_AddOnFixedAmount", "", "", "", "", "0.40">>,
       <<"", "Param_AddOnFixedAmount", "", "", "", "", "100.25">>,
       <<"", "Param_AddOnFixedAmount", "", "", "", "", "-500">>,
       <<"", "Param_ProductClassMultiplier", "Rates", "", "", "", "1.5">>,
       <<"", "Param_ProductClassMultiplier", "Rates", "", "", "", "1">>,
       <<"", "Param_ProductClassMultiplier", "Rates", "", "", "", "-1">>,
       <<"", "Param_ProductClassMultiplier", "Equity", "", "", "", "0.5">>,
       <<"", "Param_AddOnNotionalFactor", "Swap", "", "", "", "5">>,
       <<"", "Notional", "Swap", "", "", "", "1010">> >>

AddOnBases ==
    {<<>>, <<SensRows[2]>>, <<SensRows[2], SensRows[9]>>}

AddOnInputs ==
    {Config(<<Header>> \o base \o params, "USD", 1, "2_5") :
        base \in AddOnBases, params \in Bodies(ParamRows, MaxParamRows)}

InitAddOn == InitWith(AddOnInputs)

SpecAddOn == InitAddOn /\ [][Next]_vars

\* sensitivities of one product class in several risk classes, under every
\* provider and exchange rate
ScalingRows ==
    << <<"Rates", "Risk_IRCurve", "USD", "1", "2w", "OIS", "1000">>,
       <<"Rates", "Risk_FX", "EUR", "", "", "", "-700">>,
       <<"Rates", "Risk_Equity", "ACME", "1", "", "", "900.01">>,
       <<"Equity", "Risk_Equity", "RES", "Residual", "", "", "nan">> >>

ScalingInputs ==
    {Config(<<Header>> \o Pick(ScalingRows, S), "USD", r, v) :
        S \in SUBSET (1..Len(ScalingRows)), r \in 1..MaxRate, v \in Versions}

InitScaling == InitWith(ScalingInputs)

SpecScaling == InitScaling /\ [][Next]_vars

\* delta and volatility sensitivities side by side: a delta row whose
\* qualifier is a reversed currency pair, volatility rows of every vega
\* branch, and delta rows of further currencies and names
MaxMeasureRows == 3

MixedRows ==
    << <<"Equity", "Risk_Equity", "BRLUSD", "1", "", "", "900">>,
       <<"RatesFX", "Risk_IRVol", "USD", "", "2w", "", "500">>,
       <<"RatesFX", "Risk_InflationVol", "USD", "", "1y", "", "200">>,
       <<"RatesFX", "Risk_IRVol", "EUR", "", "5y", "", "400">>,
       <<"RatesFX", "Risk_FXVol", "USDBRL", "", "1y", "", "-150">>,
       <<"RatesFX", "Risk_FXVol", "EURUSD", "", "1y", "", "250">>,
       <<"Equity", "Risk_EquityVol", "ACME", "1", "1y", "", "300">>,
       <<"Credit", "Risk_CreditVol", "ISSUER", "1", "5y", "", "80">>,
       <<"RatesFX", "Risk_IRCurve", "USD", "1", "2w", "OIS", "1000">>,
       <<"Equity", "Risk_Equity", "ACME", "1", "", "", "nan">>,
       <<"Credit", "Risk_CreditQ", "ISSUER", "1", "5y", "", "60">> >>

MeasureInputs ==
    {Config(<<Header>> \o b, "USD", 1, v) :
        b \in Bodies(MixedRows, MaxMeasureRows), v \in Versions}

InitMeasures == InitWith(MeasureInputs)

\* MarginByRiskClass::new on the whole table
NewMargin ==
    /\ pc = "call"
    /\ pc' = "new"
    /\ locals' = [margin |-> MarginByRiskClass(crif_list, calc_currency, wnc)]
    /\ UNCHANGED <<crif_list, calc_currency, exchange_rate, wnc, simm, simm_break_down>>

\* a method of MarginByRiskClass returns r, which the caller keeps under the
\* method's name
Returns(method, r) ==
    /\ pc' = IF Panicked(r) THEN "panic" ELSE method
    /\ locals' = collect_map((method :> r) @@ locals)
    /\ UNCHANGED <<crif_list, calc_currency, exchange_rate, wnc, simm, simm_break_down>>

IrDeltaMargin ==
    /\ pc = "new"
    /\ \E r \in {ir_delta_margin(locals.margin)} : Returns("ir_delta_margin", r)

DeltaMargin ==
    /\ pc = "ir_delta_margin"
    /\ \E r \in {delta_margin(locals.margin)} : Returns("delta_margin", r)

IrVegaMargin ==
    /\ pc = "delta_margin"
    /\ \E r \in {ir_vega_margin(locals.margin)} : Returns("ir_vega_margin", r)

VegaMargin ==
    /\ pc = "ir_vega_margin"
    /\ \E r \in {vega_margin(locals.margin)} : Returns("vega_margin", r)

NextMeasures == NewMargin \/ IrDeltaMargin \/ DeltaMargin \/ IrVegaMargin \/ VegaMargin

SpecMeasures == InitMeasures /\ [][NextMeasures]_vars

\* tables whose header lacks some of the columns AmountUSD, RiskType and
\* Qualifier, with no row, with parameter rows (no product class) and with
\* sensitivity rows; each row has the cells of the header's columns
RequiredColumns == {"AmountUSD", "RiskType", "Qualifier"}

SchemaRows ==
    << SensRows[2], SensRows[9], ParamRows[1], ParamRows[4], ParamRows[9] >>

\* the cells of row under the columns of header
Project(row, header) ==
    collect([i \in 1..Len(header) |-> row[position(Header, header[i], 1)[1]]])

SchemaInputs ==
    {Config(<<h>> \o collect([i \in 1..Len(b) |-> Project(b[i], h)]), "USD", 1, "2_5") :
        h \in {SelectSeq(Header, LAMBDA c : c \notin lacking) :
                  lacking \in (SUBSET RequiredColumns) \ {{}}},
        b \in Bodies(SchemaRows, MaxRows)}

InitSchema == InitWith(SchemaInputs)

SpecSchema == InitSchema /\ [][Next]_vars

\* delta rows in buckets past the last one of their risk class, beside rows
\* in defined buckets
RangeRows ==
    << <<"Equity", "Risk_Equity", "ACME", "13", "", "", "900">>,
       <<"Credit", "Risk_CreditNonQ", "RMBS", "3", "5y", "", "45">>,
       <<"Credit", "Risk_CreditQ", "ISSUER", "13", "5y", "", "60">>,
       <<"Commodity", "Risk_Commodity", "Crude", "18", "", "", "120.75">>,
       <<"Equity", "Risk_Equity", "INDEX", "11", "", "", "-250">>,
       <<"Equity", "Risk_Equity", "OTHER", "2", "", "", "400">>,
       <<"Credit", "Risk_CreditNonQ", "CMBS", "2", "5y", "", "30">> >>

RangeInputs ==
    {Config(<<Header>> \o b, "USD", 1, v) :
        b \in Bodies(RangeRows, MaxRows), v \in Versions}

InitRange == InitWith(RangeInputs)

SpecRange == InitRange /\ [][Next]_vars

\* sensitivity and parameter rows whose AmountUSD cell holds a blank, a text
\* that is no number, the text nan or a decimal number, or is cut off
AmountTexts == <<"", "abc", "nan", "250">>

AmountBases ==
    << SensRows[2], SensRows[9], ParamRows[2], ParamRows[4], ParamRows[8], ParamRows[9] >>

AmountRows ==
    Concat(collect([i \in 1..Len(AmountBases) |->
        collect([t \in 1..Len(AmountTexts) |->
            SubSeq(AmountBases[i], 1, Len(Header) - 1) \o <<AmountTexts[t]>>])
        \o <<SubSeq(AmountBases[i], 1, Len(Header) - 1)>>]))

\* no row, one row or two rows
AmountInputs ==
    {Config(<<Header>> \o Pick(AmountRows, S), "USD", 1, "2_5") :
        S \in {{}} \cup {{i, j} : i, j \in 1..Len(AmountRows)}}

InitAmounts == InitWith(AmountInputs)

SpecAmounts == InitAmounts /\ [][Next]_vars

\* the correlation lookups of a provider, one call each: rho for the rates
\* risk types and every pair of tenors, gamma for the risk classes with a
\* matrix and every pair of their buckets, psi for every pair of risk classes
InitLookups ==
    /\ wnc \in Versions
    /\ crif_list = <<>>
    /\ calc_currency = "USD"
    /\ exchange_rate = 1
    /\ pc = "provider"
    /\ simm = 0
    /\ simm_break_down = <<>>
    /\ locals = NoLocals

\* the caller keeps the arguments and the returned Option
Looked(fn, risk_class, index1, index2, value) ==
    /\ pc' = fn
    /\ locals' = [risk_class |-> risk_class, index1 |-> index1, index2 |-> index2,
                  value |-> value]
    /\ UNCHANGED <<crif_list, calc_currency, exchange_rate, wnc, simm, simm_break_down>>

LookupRho ==
    /\ pc = "provider"
    /\ \E risk_class \in LIST_RATES : \E i, j \in 1..Len(SIMM_TENOR_LIST) :
          Looked("rho", risk_class, SIMM_TENOR_LIST[i], SIMM_TENOR_LIST[j],
                 wnc_rho(wnc, risk_class, SIMM_TENOR_LIST[i], SIMM_TENOR_LIST[j], None))

LookupGamma ==
    /\ pc = "provider"
    /\ \E risk_class \in {"Risk_CreditQ", "Risk_Equity", "Risk_Commodity"} :
       \E i, j \in 1..(IF risk_class = "Risk_Commodity" THEN 17 ELSE 12) :
          Looked("gamma", risk_class, ToString(i), ToString(j),
                 wnc_gamma(wnc, risk_class, ToString(i), ToString(j)))

LookupPsi ==
    /\ pc = "provider"
    /\ \E i, j \in 1..Len(RiskClasses) :
          Looked("psi", "", RiskClasses[i], RiskClasses[j],
                 wnc_psi(wnc, RiskClasses[i], RiskClasses[j]))

NextLookups == LookupRho \/ LookupGamma \/ LookupPsi

SpecLookups == InitLookups /\ [][NextLookups]_vars
\* FX delta rows in the calculation currency and in other currencies, beside
\* a delta row of another risk class, under calculation currencies of
\* regular and of high volatility
MaxFxRows == 3

FxRows ==
    << <<"RatesFX", "Risk_FX", "USD", "", "", "", "500">>,
       <<"RatesFX", "Risk_FX", "USD", "", "", "", "-200.5">>,
       <<"RatesFX", "Risk_FX", "EUR", "", "", "", "-700">>,
       <<"RatesFX", "Risk_FX", "BRL", "", "", "", "900">>,
       <<"RatesFX", "Risk_FX", "JPY", "", "", "", "400">>,
       <<"RatesFX", "Risk_FX", "USD", "", "", "", "nan">>,
       <<"RatesFX", "Risk_FX", "BRL", "", "", "", "300">>,
       <<"Equity", "Risk_Equity", "ACME", "1", "", "", "900">> >>

FxInputs ==
    {Config(<<Header>> \o b, ccy, 1, v) :
        b \in Bodies(FxRows, MaxFxRows), ccy \in {"USD", "BRL", "EUR"}, v \in Versions}

InitFx == InitWith(FxInputs)

SpecFx == InitFx /\ [][NextMeasures]_vars

\* the three kernels of agg_sensitivities.rs, one call each: every risk-class
\* tag, a list of at most MaxKernelLen values, and the optional arguments
\* either all absent or all present with one label per value
MaxKernelLen == 2

KernelValues == <<-30000, 0, 25000, 100000>>

KernelLists ==
    UNION {{collect([i \in 1..n |-> KernelValues[f[i]]]) :
               f \in [1..n -> 1..Len(KernelValues)]} : n \in 0..MaxKernelLen}

KernelTags ==
    {"Rates", "Unlisted"} \cup LIST_FX \cup LIST_CREDIT_Q \cup LIST_CREDIT_NON_Q
    \cup LIST_EQUITY \cup LIST_COMMODITY

\* the first n labels of a list of labels, repeated as far as needed
Labels(labels, n) == collect([i \in 1..n |-> labels[((i - 1) % Len(labels)) + 1]])

InitKernels ==
    /\ wnc \in Versions
    /\ crif_list = <<>>
    /\ calc_currency = "USD"
    /\ exchange_rate = 1
    /\ pc = "kernel"
    /\ simm = 0
    /\ simm_break_down = <<>>
    /\ locals = NoLocals

\* the calculation currencies a call of k_delta is given: one of regular and
\* one of high volatility for the FX tags, which alone read it
KernelCurrencies(risk_class) ==
    IF risk_class \in LIST_FX THEN {"USD", "BRL"} ELSE {"USD"}

\* the caller keeps the arguments and the returned K
Kernel(fn, risk_class, list, labelled, k) ==
    /\ pc' = IF k = Panic THEN "panic" ELSE fn
    /\ locals' = [fn |-> fn, risk_class |-> risk_class, list |-> list,
                  labelled |-> labelled, k |-> k]
    /\ UNCHANGED <<crif_list, exchange_rate, wnc, simm, simm_break_down>>

KDelta ==
    /\ pc = "kernel"
    /\ \E risk_class \in KernelTags, list \in KernelLists, labelled \in BOOLEAN :
       \E calculation_currency \in KernelCurrencies(risk_class) :
       \E k \in {
              IF ~labelled
              THEN k_delta(wnc, risk_class, list, None, None, None, None,
                           calculation_currency)
              ELSE k_delta(wnc, risk_class, list,
                       Some(Labels(<<1000, 2500, 1700>>, Len(list))),
                       Some(Labels(IF risk_class \in LIST_FX
                                   THEN <<"EUR", "BRL", "JPY">>
                                   ELSE <<"1", "2", "Residual">>, Len(list))),
                       Some(Labels(<<"2w", "1y", "5y">>, Len(list))),
                       Some(Labels(IF risk_class = "Rates"
                                   THEN <<"OIS", "Libor3m", "Inf", "XCcy">>
                                   ELSE <<"ISSUER", "Res", "ISSUER", "OTHER">>, Len(list))),
                       calculation_currency)} :
          /\ Kernel("k_delta", risk_class, list, labelled, k)
          /\ calc_currency' = calculation_currency

KVega ==
    /\ pc = "kernel"
    /\ \E risk_class \in KernelTags, list \in KernelLists, labelled \in BOOLEAN :
       \E k \in {
              IF ~labelled THEN k_vega(wnc, risk_class, list, None, None, None)
              ELSE k_vega(wnc, risk_class, list,
                       Some(Labels(<<1000, 2500, 1700>>, Len(list))), Some("1"),
                       Some(Labels(IF risk_class = "Rates"
                                   THEN <<"2w", "5y", "Inf", "Inf">>
                                   ELSE <<"ISSUER", "Res", "ISSUER", "OTHER">>, Len(list))))} :
          /\ Kernel("k_vega", risk_class, list, labelled, k)
          /\ UNCHANGED calc_currency

KCurvature ==
    /\ pc = "kernel"
    /\ \E risk_class \in KernelTags, list \in KernelLists, labelled \in BOOLEAN :
       \E k \in {
              IF ~labelled THEN k_curvature(wnc, risk_class, list, None, None)
              ELSE k_curvature(wnc, risk_class, list, Some("1"),
                       Some(Labels(IF risk_class = "Rates"
                                   THEN <<"2w", "5y", "Inf", "Inf">>
                                   ELSE <<"ISSUER", "Res", "ISSUER", "OTHER">>, Len(list))))} :
          /\ Kernel("k_curvature", risk_class, list, labelled, k)
          /\ UNCHANGED calc_currency

NextKernels == KDelta \/ KVega \/ KCurvature

SpecKernels == InitKernels /\ [][NextKernels]_vars

\* load_wnc with V2_5 for every unlisted version: the variant that never
\* panics
load_wnc_defaulting(weights_and_corr_version) ==
    IF weights_and_corr_version \in {"2_6", "2_7"}
    THEN [wnc |-> weights_and_corr_version]
    ELSE [wnc |-> "2_5"]

\* load_wnc: the box of the provider (named as in Versions) or the panic
\* "Unsupported SIMM version"
load_wnc(weights_and_corr_version) ==
    CASE weights_and_corr_version = "2_5" -> [wnc |-> "2_5"]
      [] weights_and_corr_version = "2_6" -> [wnc |-> "2_6"]
      [] weights_and_corr_version = "2_7" -> [wnc |-> "2_7"]
      [] OTHER -> Unwound

\* calc_simm and process_crif_file up to the return of SIMM::from_crif: the
\* CRIF is read (the reader fails or returns a table with its header), the
\* provider is loaded, SIMM::from_crif is called
VersionTexts == {"2_5", "2_6", "2_7", "2_4", "2.5", "V2_5", ""}

\* what read_csv_to_list or parse_csv_from_string returns
CrifReads ==
    {Err("Failed to read CSV record")}
    \cup {Ok(<<Header>> \o b) : b \in Bodies(SubSeq(SensRows, 1, 4), 1)}

\* no provider is loaded yet
Unloaded == "unloaded"

InitEntry ==
    /\ pc = "entry"
    /\ locals \in [entry : {"calc_simm", "process_crif_file"},
                   weights_and_corr_version : VersionTexts,
                   read : CrifReads]
    /\ crif_list = <<>>
    /\ calc_currency = "USD"
    /\ exchange_rate \in 1..MaxRate
    /\ wnc = Unloaded
    /\ simm = 0
    /\ simm_break_down = <<>>

\* let crif = read_csv_to_list(&crif_path)? / parse_csv_from_string(crif_csv)?
ReadCrif ==
    /\ pc = "entry"
    /\ pc' = IF locals.read.ok THEN "load_wnc" ELSE "err"
    /\ crif_list' = IF locals.read.ok THEN locals.read.v ELSE crif_list
    /\ UNCHANGED <<calc_currency, exchange_rate, wnc, simm, simm_break_down, locals>>

\* let wnc = load_wnc(&cfg), before the call of SIMM::from_crif
LoadWnc ==
    /\ pc = "load_wnc"
    /\ \E r \in {load_wnc(locals.weights_and_corr_version)} :
          /\ pc' = IF Panicked(r) THEN "panic" ELSE "call"
          /\ wnc' = IF Panicked(r) THEN wnc ELSE r.wnc
    /\ UNCHANGED <<crif_list, calc_currency, exchange_rate, simm, simm_break_down, locals>>

NextEntry == ReadCrif \/ LoadWnc \/ FromCrif \/ CalculateSimm

SpecEntry == InitEntry /\ [][NextEntry]_vars

\* EngineConfig::validate
validate(self) ==
    IF self.weights_and_corr_version = ""
    THEN Err("weights_and_corr_version must not be empty")
    ELSE IF Len(self.calculation_currency) # 3
    THEN Err("calculation_currency must be ISO-4217 (e.g. USD, EUR)")
    ELSE IF self.exchange_rate <= 0 THEN Err("exchange_rate must be > 0")
    ELSE Ok(<<>>)

\* EngineConfig::load on a file: text is what fs::read_to_string returns and
\* toml what toml::from_str makes of it
EngineConfig_load(file) ==
    IF ~file.text.ok THEN file.text
    ELSE IF ~file.toml.ok THEN file.toml
    ELSE Let(validate(file.toml.v), LAMBDA valid :
             IF ~valid.ok THEN valid ELSE Ok(file.toml.v))

\* configuration files: unreadable, no TOML of the three keys, or the three
\* keys with texts of ASCII characters and whole exchange rates
CurrencyTexts ==
    {"USD", "EUR", "BRL", "usd", "Usd", "U$D", "123", "   ", "US", "USDX", "EURO", ""}

ConfigFiles ==
    {[text |-> Err("No such file or directory"), toml |-> Err("")],
     [text |-> Ok(<<>>), toml |-> Err("TOML parse error")]}
    \cup {[text |-> Ok(<<>>),
           toml |-> Ok([weights_and_corr_version |-> v, calculation_currency |-> c,
                        exchange_rate |-> r])] :
             v \in {"2_5", "2_7", "3_0", ""}, c \in CurrencyTexts, r \in -1..MaxRate}

InitConfig ==
    /\ pc = "load"
    /\ locals \in [file : ConfigFiles]
    /\ crif_list = <<>>
    /\ calc_currency = ""
    /\ exchange_rate = 0
    /\ wnc = Unloaded
    /\ simm = 0
    /\ simm_break_down = <<>>

\* EngineConfig::load: the caller keeps the Result beside the file
LoadConfig ==
    /\ pc = "load"
    /\ \E r \in {EngineConfig_load(locals.file)} :
          /\ pc' = IF r.ok THEN "loaded" ELSE "err"
          /\ locals' = [file |-> locals.file, result |-> r]
          /\ calc_currency' = IF r.ok THEN r.v.calculation_currency ELSE calc_currency
          /\ exchange_rate' = IF r.ok THEN r.v.exchange_rate ELSE exchange_rate
    /\ UNCHANGED <<crif_list, wnc, simm, simm_break_down>>

SpecConfig == InitConfig /\ [][LoadConfig]_vars

\* currency_pair_list on tables whose Qualifier column holds pairs, their
\* swaps, a pair of one currency with itself, texts of other lengths and
\* texts with characters outside ASCII
MaxPairRows == 3

QualifierTexts ==
    <<"USDKRW", "KRWUSD", "EURUSD", "USDEUR", "USDUSD", "USD", "nan", "",
      "Crédi", "€€">>

PairTables ==
    UNION {{<<Header>> \o collect([i \in 1..n |->
                <<"RatesFX", "Risk_FXVol", QualifierTexts[f[i]], "", "1y", "", "100">>]) :
               f \in [1..n -> 1..Len(QualifierTexts)]} : n \in 0..MaxPairRows}

InitPairs == InitWith({Config(crif, "USD", 1, "2_5") : crif \in PairTables})

\* simm_utils::currency_pair_list(&crif): the caller keeps the returned list
CurrencyPairList ==
    /\ pc = "call"
    /\ IF SlicePanics(get_column_values(crif_list, "Qualifier"))
       THEN pc' = "panic" /\ locals' = Unwound
       ELSE pc' = "currency_pair_list"
            /\ locals' = [currency_pair_list |-> currency_pair_list(crif_list)]
    /\ UNCHANGED <<crif_list, calc_currency, exchange_rate, wnc, simm, simm_break_down>>

SpecPairs == InitPairs /\ [][CurrencyPairList]_vars

\* filter_rows on tables of at most MaxFilterRows rows, among them a row cut
\* short, and on the table without a header, under no condition, one
\* condition or two, on columns the header has or lacks
MaxFilterRows == 3

FilterHeader == <<"RiskType", "Bucket", "Qualifier">>

FilterRows ==
    << <<"Risk_FX", "1", "EUR">>,
       <<"Risk_Equity", "2", "ACME">>,
       <<"Risk_FX", "2", "USD">>,
       <<"Risk_FX">>,
       <<"Risk_Equity", "1", "EUR">> >>

FilterTables ==
    {<<>>}
    \cup UNION {{<<FilterHeader>> \o collect([i \in 1..n |-> FilterRows[f[i]]]) :
                    f \in [1..n -> 1..Len(FilterRows)]} : n \in 0..MaxFilterRows}

FilterConditions ==
    { <<>>,
      << <<"RiskType", <<"Risk_FX">>>> >>,
      << <<"RiskType", <<"Risk_FX", "Risk_Equity">>>> >>,
      << <<"RiskType", <<>>>> >>,
      << <<"Bucket", <<"2">>>> >>,
      << <<"Label2", <<"OIS">>>> >>,
      << <<"RiskType", <<"Risk_FX">>>>, <<"Bucket", <<"1", "2">>>> >>,
      << <<"Qualifier", <<"EUR">>>>, <<"RiskType", <<"Risk_Equity">>>> >>,
      << <<"Bucket", <<"1">>>>, <<"ProductClass", <<"RatesFX">>>> >> }

InitFilter == InitWith({Config(crif, "USD", 1, "2_5") : crif \in FilterTables})

\* filter_rows(&crif, &conditions): the caller keeps the conditions and the
\* returned table; the table passed by shared reference stays as it is
FilterRowsCall ==
    /\ pc = "call"
    /\ \E conditions \in FilterConditions :
       \E result \in {filter_rows(crif_list, conditions)} :
          /\ pc' = "filter_rows"
          /\ locals' = [conditions |-> conditions, result |-> result]
    /\ UNCHANGED <<crif_list, calc_currency, exchange_rate, wnc, simm, simm_break_down>>

SpecFilter == InitFilter /\ [][FilterRowsCall]_vars

\* ir_curvature_margin on tables of at most MaxCurvatureRows rows of the
\* vol risk types of rates, of three currencies in either order, with
\* inflation-vol amounts that cancel and that do not, under each
\* calculation currency
MaxCurvatureRows == 3

CurvatureRows ==
    << <<"RatesFX", "Risk_IRVol", "EUR", "", "1y", "", "400">>,
       <<"RatesFX", "Risk_InflationVol", "USD", "", "1y", "", "100">>,
       <<"RatesFX", "Risk_InflationVol", "USD", "", "1y", "", "-100">>,
       <<"RatesFX", "Risk_InflationVol", "USD", "", "5y", "", "0">>,
       <<"RatesFX", "Risk_IRVol", "USD", "", "2w", "", "500">>,
       <<"RatesFX", "Risk_IRVol", "EUR", "", "5y", "", "-300">>,
       <<"RatesFX", "Risk_InflationVol", "EUR", "", "1y", "", "0">>,
       <<"RatesFX", "Risk_IRVol", "JPY", "", "3m", "", "250">>,
       <<"RatesFX", "Risk_InflationVol", "JPY", "", "6m", "", "-250">>,
       <<"Equity", "Risk_Equity", "USD", "1", "", "", "900">> >>

CurvatureInputs ==
    {Config(<<Header>> \o b, ccy, 1, v) :
        b \in Bodies(CurvatureRows, MaxCurvatureRows),
        ccy \in {"USD", "EUR"}, v \in Versions}

InitCurvature == InitWith(CurvatureInputs)

IrCurvatureMargin ==
    /\ pc = "new"
    /\ \E r \in {ir_curvature_margin(locals.margin)} : Returns("ir_curvature_margin", r)

NextCurvature == NewMargin \/ IrCurvatureMargin

SpecCurvature == InitCurvature /\ [][NextCurvature]_vars

\* the loops of ir_delta_margin, delta_margin and ir_vega_margin over the
\* qualifiers, on tables of at most MaxElementRows rows of the rates and
\* credit risk types: rows with and without a Label2, tenors written in
\* lowercase and in uppercase
MaxElementRows == 3

ElementRows ==
    << <<"Credit", "Risk_CreditQ", "ISSUER", "1", "5y", "", "60">>,
       <<"Credit", "Risk_CreditQ", "ISSUER", "1", "5y", "Sec", "40">>,
       <<"Credit", "Risk_CreditQ", "ISSUER", "1", "1Y", "Sec", "30">>,
       <<"Credit", "Risk_CreditNonQ", "ISSUER", "2", "2y", "", "70">>,
       <<"Credit", "Risk_CreditNonQ", "ISSUER", "2", "2y", "IG", "20">>,
       <<"RatesFX", "Risk_IRCurve", "USD", "1", "2w", "OIS", "1000">>,
       <<"RatesFX", "Risk_IRCurve", "USD", "1", "2w", "", "500">>,
       <<"RatesFX", "Risk_IRCurve", "USD", "1", "2W", "OIS", "250">>,
       <<"RatesFX", "Risk_Inflation", "USD", "", "", "", "200">>,
       <<"RatesFX", "Risk_IRCurve", "EUR", "1", "1y", "Libor3m", "300">>,
       <<"RatesFX", "Risk_IRVol", "USD", "", "1Y", "", "150">>,
       <<"RatesFX", "Risk_IRVol", "USD", "", "1y", "", "350">>,
       <<"RatesFX", "Risk_InflationVol", "USD", "", "2w", "", "100">>,
       <<"RatesFX", "Risk_XCcyBasis", "USD", "", "", "", "80">> >>

ElementInputs ==
    {Config(<<Header>> \o b, "USD", 1, "2_5") : b \in Bodies(ElementRows, MaxElementRows)}

InitElements == InitWith(ElementInputs)

\* the locals of one pass of a loop over the qualifiers: the rows of the
\* qualifier, the sum behind its concentration factor and the elements pushed
Pass(path, crif_qualifier, sensitivities_cr, elements) ==
    /\ pc' = path
    /\ locals' = [crif |-> crif_qualifier, sensitivities_cr |-> sensitivities_cr,
                  elements |-> elements]
    /\ UNCHANGED <<crif_list, calc_currency, exchange_rate, wnc, simm, simm_break_down>>

\* one pass of `for currency in &currency_list` of ir_delta_margin
IrDeltaCurrency ==
    /\ pc = "call"
    /\ \E crif \in {filter_rows(crif_list,
                       <<<<"RiskType", <<"Risk_IRCurve", "Risk_Inflation",
                                         "Risk_XCcyBasis">>>>>>)} :
       \E c \in 1..Len(unique_column_values(crif, "Qualifier")) :
       \E crif_currency \in {filter_rows(crif,
                                <<<<"Qualifier",
                                    <<unique_column_values(crif, "Qualifier")[c]>>>>>>)} :
          Pass("ir_delta_margin", crif_currency,
               sum_sensitivities(drop_rows(crif_currency,
                                           <<<<"RiskType", "Risk_XCcyBasis">>>>)),
               IrDeltaElements(crif_currency))

\* one pass of `for qualifier in &qualifier_list` of delta_margin, for a
\* credit risk class and one of its buckets
DeltaQualifier ==
    /\ pc = "call"
    /\ \E risk_class \in {"Risk_CreditQ", "Risk_CreditNonQ"} :
       \E crif_others \in {filter_rows(crif_list, <<<<"RiskType", <<risk_class>>>>>>)} :
       \E b \in 1..Len(bucket_list(crif_others)) :
       \E crif_bucket \in {filter_rows(crif_others,
                              <<<<"Bucket",
                                  <<IF bucket_list(crif_others)[b] = 0 THEN "Residual"
                                    ELSE ToString(bucket_list(crif_others)[b])>>>>>>)} :
       \E q \in 1..Len(unique_column_values(crif_bucket, "Qualifier")) :
       \E crif_qualifier \in {filter_rows(crif_bucket,
                                 <<<<"Qualifier",
                                     <<unique_column_values(crif_bucket,
                                                            "Qualifier")[q]>>>>>>)} :
          Pass("delta_margin", crif_qualifier, sum_sensitivities(crif_qualifier),
               CreditElements(risk_class, crif_qualifier))

\* one pass of `for currency in &currency_list` of ir_vega_margin
IrVegaCurrency ==
    /\ pc = "call"
    /\ \E c \in 1..Len(unique_column_values(crif_list, "Qualifier")) :
       \E crif_currency \in {filter_rows(crif_list,
                                << <<"RiskType", <<"Risk_IRVol", "Risk_InflationVol">>>>,
                                   <<"Qualifier",
                                     <<unique_column_values(crif_list,
                                                            "Qualifier")[c]>>>> >>)} :
          Pass("ir_vega_margin", crif_currency, sum_sensitivities(crif_currency),
               IrVegaElements(crif_currency))

NextElements == IrDeltaCurrency \/ DeltaQualifier \/ IrVegaCurrency

SpecElements == InitElements /\ [][NextElements]_vars

(***************************************************************************)
(* Properties                                                              *)
(***************************************************************************)
Finished == pc \in {"done", "err", "panic"}

FirstOrder == [rc |-> RiskClasses, ms |-> <<"Delta", "Vega", "Curvature", "BaseCorr">>]

\* the column of the breakdown table headed name
BdCol(name) == position(simm_break_down[1], name, 1)[1]

\* the measure rows of the breakdown table
MeasureRows == SelectSeq(Tail(simm_break_down), LAMBDA row : row[BdCol("Risk Measure")] # "")

\* the value the breakdown shows for a (product class, risk class, measure);
\* a risk class whose measures are all zero has no rows
Cell(product_class, risk_class, measure) ==
    LET hits == SelectSeq(MeasureRows, LAMBDA row :
                    /\ row[BdCol("Product Class")] = product_class
                    /\ row[BdCol("Risk Class")] = risk_class
                    /\ row[BdCol("Risk Measure")] = measure)
    IN  IF hits = <<>> THEN 0 ELSE parse_f64(hits[1][BdCol("SIMM_RiskMeasure")])[1]

NonZeroCells ==
    {<<MeasureRows[i][BdCol("Risk Class")], MeasureRows[i][BdCol("Risk Measure")]>> :
        i \in {j \in 1..Len(MeasureRows) :
                  parse_f64(MeasureRows[j][BdCol("SIMM_RiskMeasure")]) # Some(0)}}

Body == IF crif_list = <<>> THEN <<>> ELSE Tail(crif_list)

\* ---------------------------------------------------------------------------
\* C1.  Reference scenario S1: for the CRIF whose only row is (Rates,
\* Risk_IRCurve, USD, bucket 1, 2w, Label2 empty, 1000), provider 2.5,
\* calculation currency USD and exchange rate 1, from_crif yields
\* SIMM = 1000 x 115 = 115000 and the breakdown has exactly one non-zero
\* measure cell, under Rates / Delta.
C1_IsS1 ==
    /\ crif_list = <<Header, S1Row>>
    /\ calc_currency = "USD" /\ exchange_rate = 1 /\ wnc = "2_5"

C1_ReferenceScenarioS1 ==
    (C1_IsS1 /\ Finished) =>
        /\ pc = "done"
        /\ simm = 115000 * Unit
        /\ NonZeroCells = {<<"Rates", "Delta">>}

\* ---------------------------------------------------------------------------
\* C2.  Version selection: with provider v, every parameter the aggregation
\* uses is v's own value, the parameters outside the WeightsAndCorr trait
\* included.  Stated on the CRIFs of a single row, whose SIMM is the absolute
\* amount times the one weight involved: the inflation weight, the
\* cross-currency basis weight, the regular-volatility tenor weight and the FX
\* weight of the provider passed.
C2_SingleRowWeight ==
    IF Body = <<SensRows[4]>> THEN Some(INFLATION_RW[wnc])
    ELSE IF Body = <<SensRows[5]>> THEN Some(CCY_BASIS_SWAP_SPREAD_RW[wnc])
    ELSE IF Body = <<SensRows[2]>> THEN Some(rw_lookup(REG_VOL_RW[wnc], "2w"))
    ELSE IF Body = <<SensRows[8]>> THEN Some(fx_rw_table[wnc][1][1])
    ELSE None

C2_VersionSelection ==
    (pc = "done" /\ crif_list[1] = Header /\ C2_SingleRowWeight # None) =>
        simm = apply_exchange_rate(
                   FAbs(WeightedSensitivity(C2_SingleRowWeight[1],
                                            sum_sensitivities(crif_list), CRScale)),
                   exchange_rate)

\* ---------------------------------------------------------------------------
\* C3.  Non-negativity: for every CRIF with a header row and every
\* configuration with exchange_rate > 0, the SIMM total from_crif produces
\* is >= 0.
C3_NonNegative ==
    (pc = "done" /\ exchange_rate > 0) => (~IsNaN(simm) /\ simm >= 0)

\* ---------------------------------------------------------------------------
\* C4.  Determinism: two executions on the same CRIF, configuration and
\* provider give the same SIMM total and the same breakdown table, the same
\* rows in the same order, whatever the iteration order of the hash maps.
C4_Deterministic ==
    pc = "done" =>
        \A order \in HashOrders :
            \E r \in {calculate_simm(Self, order)} :
                /\ r.status = "ok"
                /\ r.simm = simm
                /\ r.simm_break_down = simm_break_down

\* ---------------------------------------------------------------------------
\* C5.  Residual isolation: in the Delta aggregation of the bucketed risk
\* types, for every content of the Bucket column that bucket_list accepts,
\* the Residual bucket's K goes only into K_res, added outside the square
\* root, and every cross-bucket term gamma(b,c) * S_b * S_c is formed for two
\* non-residual buckets b # c from the clamped sums of those same two
\* buckets.  The charge the claim describes, from the per-bucket values:
C5_IsolatedCharge(risk_type) ==
    LET margin == MarginByRiskClass(crif_list, calc_currency, wnc)
        crif_others == filter_rows(margin.crif, <<<<"RiskType", <<risk_type>>>>>>)
        buckets == bucket_list(crif_others)
        numeric == SelectSeq(buckets, LAMBDA b : b # 0)
        m == Len(numeric)
        per == collect([i \in 1..m |-> BucketDelta(margin, risk_type, crif_others, numeric[i])])
        residual == BucketDelta(margin, risk_type, crif_others, 0)
        k_res == IF contains(buckets, 0) THEN residual.k ELSE 0
        Gamma(i, j) == UnwrapOr(wnc_gamma(wnc, risk_type, ToString(numeric[i]),
                                          ToString(numeric[j])), 0)
        cross == collect([p \in 1..(m * m) |->
                    IF ((p - 1) \div m) = ((p - 1) % m) THEN SBZero
                    ELSE SBMulInt(FMulSB(per[((p - 1) \div m) + 1].s,
                                         per[((p - 1) % m) + 1].s),
                                  Gamma(((p - 1) \div m) + 1, ((p - 1) % m) + 1))])
    IN  FAdd(FSqrtSB(SBAdd(SumSquares(collect([i \in 1..m |-> per[i].k]), CorrScale),
                           SBSum(cross)),
                     CorrScale),
             k_res)

C5_BucketedTypes ==
    {rt \in {"Risk_CreditQ", "Risk_CreditNonQ", "Risk_Equity", "Risk_Commodity"} :
        \E i \in 1..Len(Body) : Body[i][2] = rt}

C5_ResidualIsolation ==
    pc = "done" =>
        \A rt \in C5_BucketedTypes :
            Cell(Body[1][1], DeltaCell(rt), "Delta") = C5_IsolatedCharge(rt)

\* ---------------------------------------------------------------------------
\* C6.  Residual move: for Equity, Commodity and Credit delta sensitivities,
\* changing the Bucket of one sensitivity row from a numeric bucket to
\* Residual, all other cells unchanged, never lowers the SIMM total.
C6_Movable ==
    {i \in 1..Len(Body) :
        /\ Body[i][2] \in {"Risk_CreditQ", "Risk_CreditNonQ", "Risk_Equity", "Risk_Commodity"}
        /\ parse_usize(Body[i][4]) # None}

C6_Moved(i) ==
    [crif_list EXCEPT ![i + 1] = [@ EXCEPT ![4] = "Residual"]]

C6_Removed(i) ==
    collect([j \in 1..(Len(crif_list) - 1) |-> crif_list[IF j <= i THEN j ELSE j + 1]])

\* a row of the risk type is in Residual, or in the bucket 0 that Residual is
\* mapped to
C6_HasResidual(risk_type) ==
    \E j \in 1..Len(Body) :
        /\ Body[j][2] = risk_type
        /\ (Body[j][4] = "Residual" \/ parse_usize(Body[j][4]) = Some(0))

C6_SimmOf(crif) ==
    calculate_simm(Config(crif, calc_currency, exchange_rate, wnc), FirstOrder)

C7_Combined == FAdd(locals.addon_ms, addon_margin(Self).v)

C7_AddOnRounding ==
    (pc = "done" /\ ~IsNaN(C7_Combined)) =>
        /\ locals.addon_margin = C7_Combined
        /\ simm = FAdd(FSum(collect([i \in 1..Len(locals.products) |->
                                        locals.products[i].simm_prod])),
                       C7_Combined)
        /\ C7_Combined # 0 => simm_break_down[2][BdCol("Add-On")] = fmt2(C7_Combined)

\* ---------------------------------------------------------------------------
\* C8.  Partition additivity of fixed add-ons: for a CRIF consisting only of
\* Param_AddOnFixedAmount rows, split into two disjoint subsets A and B, the
\* add-on computed for A plus the add-on computed for B equals the add-on
\* computed for the union.
C8_AddOnOf(rows) ==
    calculate_simm(Config(<<Header>> \o rows, calc_currency, exchange_rate, wnc),
                   FirstOrder).addon_margin

C8_OnlyFixed ==
    /\ Body # <<>>
    /\ \A i \in 1..Len(Body) : Body[i][2] = "Param_AddOnFixedAmount"

C8_PartitionAdditivity ==
    (pc = "done" /\ crif_list[1] = Header /\ C8_OnlyFixed) =>
        \A A \in SUBSET (1..Len(Body)) :
            FAdd(C8_AddOnOf(Pick(Body, A)),
                 C8_AddOnOf(Pick(Body, (1..Len(Body)) \ A))) = locals.addon_margin

\* ---------------------------------------------------------------------------
\* C9.  Product-class multiplier: the multiplier part of the add-on equals the
\* sum over product classes P of SIMM_P * (m_P - 1), m_P the sum of AmountUSD
\* over the rows with RiskType = Param_ProductClassMultiplier and
\* Qualifier = P; a product class contributes zero exactly when the CRIF has
\* no such row for it.
C9_MultiplierRows(product_class) ==
    SelectSeq(Body, LAMBDA row : /\ row[2] = "Param_ProductClassMultiplier"
                                 /\ row[3] = product_class)

\* m_P, in hundredths
C9_m(product_class) ==
    FSum(collect([i \in 1..Len(C9_MultiplierRows(product_class)) |->
            UnwrapOr(parse_f64(C9_MultiplierRows(product_class)[i][7]), 0)]))

C9_Products == 1..Len(locals.products)

C9_AsClaimed ==
    (pc = "done" /\ crif_list[1] = Header) =>
        /\ locals.addon_ms =
              FSum(collect([i \in C9_Products |->
                  IF C9_MultiplierRows(locals.products[i].product_class) = <<>> THEN 0
                  ELSE FScale(locals.products[i].simm_prod,
                              C9_m(locals.products[i].product_class) - Unit, Unit)]))
        /\ \A i \in C9_Products :
              (locals.products[i].addon_ms = 0)
                  <=> (C9_MultiplierRows(locals.products[i].product_class) = <<>>)

\* C9.  As the code has it: the multiplier part of the add-on is the sum, over
\* the product classes P of the CRIF whose m_P is not 0, of
\* SIMM_P * (m_P - 1); a product class with no multiplier row, or whose
\* multiplier rows sum to 0, contributes zero.
C9_MultiplierPart ==
    (pc = "done" /\ crif_list[1] = Header) =>
        /\ locals.addon_ms =
              FSum(collect([i \in C9_Products |->
                  IF C9_m(locals.products[i].product_class) = 0 THEN 0
                  ELSE FScale(locals.products[i].simm_prod,
                              C9_m(locals.products[i].product_class) - Unit, Unit)]))
        /\ \A i \in C9_Products :
              (C9_MultiplierRows(locals.products[i].product_class) = <<>>
               \/ C9_m(locals.products[i].product_class) = 0)
                  => locals.products[i].addon_ms = 0

\* two product classes, one with a multiplier row that raises the add-on and
\* one without a multiplier row
C9_Uplift ==
    /\ pc = "done" /\ crif_list[1] = Header
    /\ Len(locals.products) = 2
    /\ locals.products[1].simm_prod > 0 /\ locals.products[2].simm_prod > 0
    /\ C9_m(locals.products[1].product_class) = 150
    /\ C9_MultiplierRows(locals.products[2].product_class) = <<>>
    /\ locals.addon_ms = locals.products[1].simm_prod \div 2

\* ---------------------------------------------------------------------------
\* C10.  Exchange-rate scaling: for a fixed CRIF and provider, replacing
\* exchange_rate r by alpha * r (alpha >= 0) multiplies every per-(risk
\* class, measure) charge and every product-class value SIMM_P by alpha.
\* The charges and the sum under the square root of SIMM_P (by alpha^2) scale
\* exactly; SIMM_P itself is the root cut to whole cents, so its alpha-fold
\* is met to within the cents the cut drops.  NaN stays NaN.
C10_Scaled(x, alpha) == IF IsNaN(x) THEN NaN ELSE alpha * x

C10_SelfAt(alpha) == [Self EXCEPT !.exchange_rate = alpha * exchange_rate]

C10_CrifOf(product_class) == filter_crif_by_column(Self, "ProductClass", product_class)

C10_ChargesScale(product_class, base, alpha) ==
    \E scaled \in {simm_risk_class(C10_SelfAt(alpha), C10_CrifOf(product_class))} :
        /\ \A rc \in DOMAIN scaled : \A m \in DOMAIN scaled[rc] :
              scaled[rc][m] = C10_Scaled(base[rc][m], alpha)
        /\ \E b \in {SimmProductRadicand(Self, base)} :
           \E t \in {SimmProductRadicand(C10_SelfAt(alpha), scaled)} :
              /\ t.nan = b.nan
              /\ SBAdd(t.radicand, SBMulInt(b.radicand, -(alpha * alpha))) = SBZero

C10_ProductScales(simm_prod, scaled_prod, alpha) ==
    IF IsNaN(simm_prod) THEN IsNaN(scaled_prod)
    ELSE /\ ~IsNaN(scaled_prod)
         /\ alpha * simm_prod <= scaled_prod
         /\ scaled_prod <= alpha * simm_prod + Max(alpha - 1, 0)

C11_VolTypes ==
    {"Risk_IRVol", "Risk_InflationVol", "Risk_CreditVol", "Risk_CreditVolNonQ",
     "Risk_EquityVol", "Risk_CommodityVol", "Risk_FXVol"}

C11_RiskTypeOf(row) == row[position(Header, "RiskType", 1)[1]]

C11_DeltaRowsOf(crif) ==
    <<crif[1]>> \o SelectSeq(Tail(crif), LAMBDA row : C11_RiskTypeOf(row) \notin C11_VolTypes)

C11_VolRowsOf(crif) ==
    <<crif[1]>> \o SelectSeq(Tail(crif), LAMBDA row : C11_RiskTypeOf(row) \in C11_VolTypes)

\* the charges of one measure in a dictionary of margins
C11_Charges(dict, measure) ==
    collect_map([rc \in DOMAIN dict |-> dict[rc][measure]])

\* ---------------------------------------------------------------------------
\* C11.  Measure orthogonality: the Delta charge of every risk class is the
\* one the table has without its Vol rows, so no change to Vol rows changes
\* a Delta charge; the Vega charge of every risk class is the one the table
\* has with its Vol rows only, so no change to delta rows changes a Vega
\* charge
C11_MeasureOrthogonality ==
    pc = "vega_margin" =>
        /\ \E delta_only \in {MarginByRiskClass(C11_DeltaRowsOf(crif_list),
                                                calc_currency, wnc)} :
              /\ C11_Charges(locals.ir_delta_margin, "Delta")
                     = C11_Charges(ir_delta_margin(delta_only), "Delta")
              /\ C11_Charges(locals.delta_margin, "Delta")
                     = C11_Charges(delta_margin(delta_only), "Delta")
        /\ \E vol_only \in {MarginByRiskClass(C11_VolRowsOf(crif_list),
                                              calc_currency, wnc)} :
              /\ C11_Charges(locals.ir_vega_margin, "Vega")
                     = C11_Charges(ir_vega_margin(vol_only), "Vega")
              /\ C11_Charges(locals.vega_margin, "Vega")
                     = C11_Charges(vega_margin(vol_only), "Vega")

\* a table with delta rows and Vol rows, whose delta rows carry a currency
\* without Vol rows or the reverse of a Vol pair, and whose Delta and Vega
\* charges are both non-zero
C11_MixedMeasures ==
    /\ pc = "vega_margin"
    /\ \E rc \in DOMAIN init_margin_dict :
          FAdd(locals.ir_delta_margin[rc].Delta, locals.delta_margin[rc].Delta) # 0
    /\ \E rc \in DOMAIN init_margin_dict :
          FAdd(locals.ir_vega_margin[rc].Vega, locals.vega_margin[rc].Vega) > 0
    /\ currency_pair_list(crif_list) # currency_pair_list(C11_VolRowsOf(crif_list))
    /\ locals.vega_margin["FX"].Vega > 0

\* the columns of RequiredColumns that the header lacks
C12_Missing == {c \in RequiredColumns : ~contains(crif_list[1], c)}

\* the text msg holds the text name
C12_Names(msg, name) ==
    \E i \in 1..(Len(msg) - Len(name) + 1) : SubSeq(msg, i, i + Len(name) - 1) = name

\* ---------------------------------------------------------------------------
\* C12.  Schema error: when the header lacks one of the columns AmountUSD,
\* RiskType, Qualifier, with or without rows of a product class, from_crif
\* produces no margin: it returns an error whose message names a missing
\* column
C12_SchemaError ==
    (Finished /\ crif_list # <<>> /\ C12_Missing # {}) =>
        /\ pc = "err"
        /\ \E r \in {calculate_simm(Self, FirstOrder)} :
              /\ r.status = "err"
              /\ \E c \in C12_Missing : C12_Names(r.e, c)

\* the last bucket the provider defines for a bucketed delta risk type
C13_LastBucket(risk_type) ==
    CASE risk_type = "Risk_CreditQ"    -> Len(CREDIT_Q_RW[wnc]) - 1
      [] risk_type = "Risk_CreditNonQ" -> Len(CREDIT_NON_Q_RW[wnc]) - 1
      [] risk_type = "Risk_Equity"     -> Len(EQUITY_RW[wnc]) - 1
      [] risk_type = "Risk_Commodity"  -> Len(COMMODITY_RW[wnc]) - 1

\* the rows of a bucketed delta risk type whose Bucket is a number past the
\* last bucket
C13_OutOfRange ==
    {i \in 1..Len(Body) :
        /\ Body[i][2] \in {"Risk_CreditQ", "Risk_CreditNonQ", "Risk_Equity", "Risk_Commodity"}
        /\ parse_usize(Body[i][4]) # None
        /\ parse_usize(Body[i][4])[1] > C13_LastBucket(Body[i][2])}

\* ---------------------------------------------------------------------------
\* C13.  Out-of-range bucket: a delta row of a bucketed risk class whose
\* Bucket is a number outside the range of the risk class makes from_crif
\* fail; it never returns a margin
C13_OutOfRangeBucket ==
    (Finished /\ crif_list # <<>> /\ crif_list[1] = Header /\ C13_OutOfRange # {}) =>
        pc \in {"err", "panic"}

\* a row without a decimal number for its amount: the cell is missing, blank
\* or a text that is no decimal number
C14_Malformed(row) ==
    \/ Len(row) < Len(Header)
    \/ row[Len(Header)] = ""
    \/ parse_f64(row[Len(Header)]) \in {None, Some(NaN)}

\* the table with the amount 0 in every malformed row
C14_Zeroed(crif) ==
    <<crif[1]>> \o collect([i \in 1..(Len(crif) - 1) |->
        IF C14_Malformed(crif[i + 1])
        THEN SubSeq(crif[i + 1], 1, Len(Header) - 1) \o <<"0">> ELSE crif[i + 1]])

\* ---------------------------------------------------------------------------
\* C14.  Malformed amounts: a row whose AmountUSD cell is missing, blank or
\* no decimal number counts as the amount zero in every sum (sensitivities,
\* fixed and notional add-ons, product-class multiplier): from_crif succeeds
\* with a numeric total, the one of the table with 0 in these cells
C14_MalformedAmounts ==
    (Finished /\ crif_list # <<>> /\ crif_list[1] = Header) =>
        /\ pc = "done"
        /\ ~IsNaN(simm)
        /\ \E r \in {calculate_simm([Self EXCEPT !.crif_list = C14_Zeroed(crif_list)],
                                    FirstOrder)} :
              r.status = "ok" /\ r.simm = simm

\* the same for the rows whose amount is not the text nan
C14_MalformedButNan ==
    (\A i \in 1..Len(Body) : Len(Body[i]) < Len(Header) \/ Body[i][Len(Header)] # "nan")
        => C14_MalformedAmounts

\* ---------------------------------------------------------------------------
\* C15.  Correlation-matrix sanity: under every provider, rho over the twelve
\* tenors for the rates risk types, and gamma over the buckets of CreditQ,
\* Equity and Commodity, return the same value for a pair and for its
\* reverse, and 1 for a pair of equal labels
C15_MatrixSanity ==
    /\ pc = "rho" =>
          /\ locals.value # None /\ locals.value # Some(Panic)
          /\ locals.value = wnc_rho(wnc, locals.risk_class, locals.index2,
                                    locals.index1, None)
          /\ locals.index1 = locals.index2 => locals.value = Some(CorrScale)
    /\ pc = "gamma" =>
          /\ locals.value # None /\ locals.value # Some(Panic)
          /\ locals.value = wnc_gamma(wnc, locals.risk_class, locals.index2,
                                      locals.index1)
          /\ locals.index1 = locals.index2 => locals.value = Some(CorrScale)

\* ---------------------------------------------------------------------------
\* C16.  psi sanity: under every provider and for every pair of the six risk
\* classes psi returns a value; it is 1 for a risk class with itself and the
\* same for a pair and its reverse
C16_PsiSanity ==
    pc = "psi" =>
        /\ locals.value # None /\ locals.value # Some(Panic)
        /\ locals.value = wnc_psi(wnc, locals.index2, locals.index1)
        /\ locals.index1 = locals.index2 => locals.value = Some(CorrScale)

\* a psi between two different risk classes that is neither 0 nor 1
C16_CrossClassPsi ==
    /\ pc = "psi" /\ locals.index1 = "FX" /\ locals.index2 = "CreditQ"
    /\ locals.value \notin {None, Some(Panic), Some(0), Some(CorrScale)}

\* the charges of a product class by risk class and measure
C17_Charges(product_class) ==
    simm_risk_class(Self, filter_crif_by_column(Self, "ProductClass", product_class))

\* the number of measure rows of the breakdown for a triple
C17_Rows(product_class, risk_class, measure) ==
    Len(SelectSeq(MeasureRows, LAMBDA row :
            /\ row[BdCol("Product Class")] = product_class
            /\ row[BdCol("Risk Class")] = risk_class
            /\ row[BdCol("Risk Measure")] = measure))

\* every measure row is the row of a product class of the CRIF, a risk class
\* and one of its measures
C17_RowsAreTriples ==
    \A i \in 1..Len(MeasureRows) :
        /\ contains(product_list(crif_list), MeasureRows[i][BdCol("Product Class")])
        /\ contains(RiskClasses, MeasureRows[i][BdCol("Risk Class")])
        /\ contains(Measures(MeasureRows[i][BdCol("Risk Class")]),
                    MeasureRows[i][BdCol("Risk Measure")])

\* ---------------------------------------------------------------------------
\* C17.  Breakdown measure rows, as claimed: the breakdown has one measure
\* row for a (product class, risk class, measure) whose charge is not zero
\* and none for one whose charge is zero
C17_AsClaimed ==
    pc = "done" =>
        /\ C17_RowsAreTriples
        /\ \A p \in 1..Len(locals.products) :
           \E product_class \in {locals.products[p].product_class} :
           \E charges \in {C17_Charges(product_class)} :
              \A r \in 1..Len(RiskClasses) : \A m \in 1..Len(Measures(RiskClasses[r])) :
                  C17_Rows(product_class, RiskClasses[r], Measures(RiskClasses[r])[m])
                      = IF charges[RiskClasses[r]][Measures(RiskClasses[r])[m]] # 0
                        THEN 1 ELSE 0

\* C17, corrected: the breakdown has one measure row for every measure of a
\* (product class, risk class) that has a measure whose charge is not zero
\* (NaN is not zero), whether the charge of the row's measure is zero or
\* not, and no measure row for a (product class, risk class) whose charges
\* are all zero
C17_MeasureRows ==
    pc = "done" =>
        /\ C17_RowsAreTriples
        /\ \A p \in 1..Len(locals.products) :
           \E product_class \in {locals.products[p].product_class} :
           \E charges \in {C17_Charges(product_class)} :
              \A r \in 1..Len(RiskClasses) : \A m \in 1..Len(Measures(RiskClasses[r])) :
                  C17_Rows(product_class, RiskClasses[r], Measures(RiskClasses[r])[m])
                      = IF \E m2 \in 1..Len(Measures(RiskClasses[r])) :
                               charges[RiskClasses[r]][Measures(RiskClasses[r])[m2]] # 0
                        THEN 1 ELSE 0

\* a product class with a non-zero Delta charge in two risk classes, whose
\* Vega rows show 0.00, and no row for its other risk classes
C17_ZeroRowShown ==
    /\ pc = "done" /\ Len(locals.products) = 1
    /\ \E product_class \in {locals.products[1].product_class} :
          /\ Cell(product_class, "Rates", "Delta") > 0
          /\ Cell(product_class, "Equity", "Delta") > 0
          /\ C17_Rows(product_class, "Rates", "Vega") = 1
          /\ Cell(product_class, "Rates", "Vega") = 0
          /\ C17_Rows(product_class, "Commodity", "Delta") = 0

\* every data row of the breakdown shows the final total in its first column
C18_TotalCells ==
    \A i \in 2..Len(simm_break_down) :
        simm_break_down[i][BdCol("SIMM Total")] = fmt2(simm)

\* ---------------------------------------------------------------------------
\* C18.  Breakdown always reports the total: for a CRIF with a header and the
\* required columns, with or without product-class rows and whatever the
\* charges, the breakdown of from_crif has a data row after its header, and
\* the SIMM Total cell of every data row is the final total with two decimals
C18_TotalReported ==
    (pc = "done" /\ C12_Missing = {}) =>
        /\ Len(simm_break_down) >= 2
        /\ C18_TotalCells

\* the header with and without the Add-On column
C19_Columns(with_addon) ==
    <<"SIMM Total">> \o (IF with_addon THEN <<"Add-On">> ELSE <<>>)
    \o <<"Product Class", "SIMM_ProductClass", "Risk Class", "SIMM_RiskClass",
         "Risk Measure", "SIMM_RiskMeasure">>

\* ---------------------------------------------------------------------------
\* C19.  Breakdown header: the header of the breakdown is SIMM Total, Add-On
\* (optional), Product Class, SIMM_ProductClass, Risk Class, SIMM_RiskClass,
\* Risk Measure, SIMM_RiskMeasure in this order, every data row has as many
\* cells as the header, and the Add-On column is there exactly when the
\* add-on of the calculation is not zero
C19_BreakdownHeader ==
    pc = "done" =>
        /\ simm_break_down # <<>>
        /\ simm_break_down[1] = C19_Columns(locals.addon_margin # 0)
        /\ \A i \in 2..Len(simm_break_down) :
              Len(simm_break_down[i]) = Len(simm_break_down[1])

\* the same for the calculations whose add-on is a number
C19_NumericAddOn ==
    ~IsNaN(locals.addon_margin) => C19_BreakdownHeader

\* a table of one row, the header, which names every column the calculation
\* reads
C20_HeaderOnly ==
    /\ Len(crif_list) = 1
    /\ \A c \in RequiredColumns \cup {"ProductClass"} :
          \E i \in 1..Len(crif_list[1]) : crif_list[1][i] = c

\* C20. Empty input: the call on a CRIF that consists of a header row only
\* returns, with SIMM total 0 and a breakdown made of the header (without the
\* Add-On column) and exactly one data row, which has the header's length and
\* shows the total 0.00
C20_EmptyInput ==
    (C20_HeaderOnly /\ pc \notin {"call", "constructed"}) =>
        /\ pc = "done"
        /\ simm = 0
        /\ Len(simm_break_down) = 2
        /\ simm_break_down[1] =
              <<"SIMM Total", "Product Class", "SIMM_ProductClass", "Risk Class",
                "SIMM_RiskClass", "Risk Measure", "SIMM_RiskMeasure">>
        /\ Len(simm_break_down[2]) = Len(simm_break_down[1])
        /\ simm_break_down[2][1] = "0.00"

\* a header-only CRIF has been calculated, under an exchange rate above 1
C20_EmptyCalculated ==
    /\ C20_HeaderOnly
    /\ pc = "done"
    /\ exchange_rate > 1
    /\ simm_break_down # <<>>

C21_ParamTypes ==
    {"Param_AddOnFixedAmount", "Param_ProductClassMultiplier",
     "Param_AddOnNotionalFactor", "Notional"}

\* the CRIF has parameter rows and nothing else
C21_OnlyParams ==
    /\ Len(crif_list) > 1
    /\ crif_list[1] = Header
    /\ \A i \in 2..Len(crif_list) : crif_list[i][2] \in C21_ParamTypes

\* the add-on of the parameter rows: fixed amounts plus factor * notional
C21_AddOn == addon_margin(Self).v

\* C21. Add-on only: for a CRIF of add-on parameter rows only whose add-on is
\* not zero, the call returns, the SIMM total equals the add-on, and the
\* breakdown is the eight-column header with Add-On followed by one row that
\* carries the total and the add-on with empty product-class, risk-class and
\* measure cells
C21_AddOnOnly ==
    (C21_OnlyParams /\ pc \notin {"call", "constructed"} /\ C21_AddOn # 0) =>
        /\ pc = "done"
        /\ simm = C21_AddOn
        /\ simm_break_down =
              << <<"SIMM Total", "Add-On", "Product Class", "SIMM_ProductClass",
                   "Risk Class", "SIMM_RiskClass", "Risk Measure", "SIMM_RiskMeasure">>,
                 <<fmt2(C21_AddOn), fmt2(C21_AddOn), "", "0", "", "0", "", "0">> >>

\* the same for the add-ons that are a whole number of currency units
C21_WholeAddOn ==
    (~IsNaN(C21_AddOn) /\ C21_AddOn % Unit = 0) => C21_AddOnOnly

\* the Risk_FX rows whose Qualifier is the calculation currency
C22_OwnRow(row) == row[2] = "Risk_FX" /\ row[3] = calc_currency

C22_WithoutOwnRows ==
    <<crif_list[1]>> \o SelectSeq(Tail(crif_list), LAMBDA row : ~C22_OwnRow(row))

C22_FxDelta(crif) ==
    delta_margin(MarginByRiskClass(crif, calc_currency, wnc))["FX"].Delta

\* C22. FX own-currency rows: the Risk_FX rows whose Qualifier is the
\* calculation currency weigh nothing: the FX Delta charge of a table is the
\* one it has without these rows, and it is 0 when every Risk_FX row of the
\* table is such a row
C22_FxOwnCurrency ==
    pc = "delta_margin" =>
        /\ locals.delta_margin["FX"].Delta = C22_FxDelta(C22_WithoutOwnRows)
        /\ (\A i \in 2..Len(crif_list) :
               crif_list[i][2] = "Risk_FX" => C22_OwnRow(crif_list[i]))
           => locals.delta_margin["FX"].Delta = 0

\* the same for the tables whose own-currency rows hold decimal amounts
C22_NumericOwnRows ==
    (\A i \in 2..Len(crif_list) :
        C22_OwnRow(crif_list[i]) => crif_list[i][7] # "nan")
    => C22_FxOwnCurrency

\* own-currency rows beside rows of other currencies with a charge
C22_OwnBesideOthers ==
    /\ pc = "delta_margin"
    /\ \E i \in 2..Len(crif_list) : C22_OwnRow(crif_list[i])
    /\ locals.delta_margin["FX"].Delta > 0

C23_Called == pc \in {"k_delta", "k_vega", "k_curvature", "panic"}

\* the kernels return 0 for the empty list and |x| for the list [x]
C23_EmptyAndSingle ==
    C23_Called =>
        /\ locals.list = <<>> => locals.k = 0
        /\ Len(locals.list) = 1 => locals.k = FAbs(locals.list[1])

\* C23. Kernel edge policies: for every risk-class tag, k_delta, k_vega and
\* k_curvature return 0 for an empty list, |x| for a list [x] and a strictly
\* positive K for a list of strictly positive values
C23_KernelEdges ==
    C23_Called =>
        /\ pc # "panic"
        /\ locals.list = <<>> => locals.k = 0
        /\ Len(locals.list) = 1 => locals.k = FAbs(locals.list[1])
        /\ (locals.list # <<>> /\ \A i \in 1..Len(locals.list) : locals.list[i] > 0)
           => locals.k > 0

\* the same for the calls that pass every optional argument, and for the
\* tags other than Rates
C23_WithLabels ==
    (C23_Called /\ (locals.labelled \/ locals.risk_class # "Rates")) => C23_KernelEdges

\* C24. Unknown version: a calculation started through calc_simm or
\* process_crif_file with a weights_and_corr_version outside "2_5", "2_6",
\* "2_7" aborts in load_wnc, leaving no SIMM total and no breakdown, and no
\* step follows the abort; the three listed strings select V2_5, V2_6 and
\* V2_7 respectively, and only with a provider selected does a calculation
\* run
C24_UnknownVersion ==
    [][/\ pc # "panic"
       /\ pc = "load_wnc" =>
             IF locals.weights_and_corr_version \in {"2_5", "2_6", "2_7"}
             THEN /\ pc' = "call"
                  /\ wnc' = locals.weights_and_corr_version
                  /\ wnc' \in Versions
             ELSE /\ pc' = "panic"
                  /\ wnc' = Unloaded
                  /\ simm' = 0
                  /\ simm_break_down' = <<>>
       /\ pc' \in {"constructed", "done"} => wnc' \in Versions]_vars

\* load_wnc has panicked on an unlisted version
C24_Aborted ==
    /\ pc = "panic"
    /\ wnc = Unloaded
    /\ locals.weights_and_corr_version \notin {"2_5", "2_6", "2_7"}

\* a listed version has run to a result
C24_Selected ==
    /\ pc = "done"
    /\ wnc = "2_7"
    /\ simm_break_down # <<>>

\* exactly three uppercase letters
C25_ThreeUppercase(s) ==
    /\ Len(s) = 3
    /\ \A i \in 1..3 : Find("ABCDEFGHIJKLMNOPQRSTUVWXYZ", SubSeq(s, i, i), 1) # 0

\* C25. Configuration validation: EngineConfig::load accepts a configuration
\* only if its calculation_currency consists of exactly three uppercase
\* letters; on every other calculation_currency it returns an error and no
\* EngineConfig
C25_ConfigValidation ==
    (pc \in {"loaded", "err"} /\ locals.file.text.ok /\ locals.file.toml.ok) =>
        IF C25_ThreeUppercase(locals.file.toml.v.calculation_currency)
        THEN locals.result.ok => locals.result.v = locals.file.toml.v
        ELSE pc = "err" /\ ~locals.result.ok

\* what validate does check: an accepted calculation_currency has three
\* characters
C25_LengthChecked ==
    pc = "loaded" => Len(locals.result.v.calculation_currency) = 3

\* the Qualifier column, and the pair YYYXXX of a six-character XXXYYY
C26_Qualifiers == collect([i \in 1..(Len(crif_list) - 1) |-> crif_list[i + 1][3]])

C26_Swap(q) == SubSeq(q, 4, 6) \o SubSeq(q, 1, 3)

C26_SameClass(p, q) == p = q \/ p = C26_Swap(q)

\* the first position of the Qualifier column that holds a member of q's
\* class
C26_FirstSeen(q) ==
    CHOOSE k \in 1..Len(C26_Qualifiers) :
        /\ C26_SameClass(C26_Qualifiers[k], q)
        /\ \A m \in 1..(k - 1) : ~C26_SameClass(C26_Qualifiers[m], q)

\* C26. currency_pair_list returns, for every Qualifier column, only
\* six-character qualifiers of the column, in first-seen order, no two of
\* them equal or swaps of each other, and every class of pairs of the column
\* exactly once, by its first-seen member
C26_CurrencyPairs ==
    pc \in {"currency_pair_list", "panic"} =>
        /\ pc # "panic"
        /\ \E r \in {locals.currency_pair_list} :
              /\ \A i \in 1..Len(r) : Len(r[i]) = 6 /\ contains(C26_Qualifiers, r[i])
              /\ \A i, j \in 1..Len(r) :
                    i < j => /\ ~C26_SameClass(r[i], r[j])
                             /\ C26_FirstSeen(r[i]) < C26_FirstSeen(r[j])
              /\ \A k \in 1..Len(C26_Qualifiers) :
                    Len(C26_Qualifiers[k]) = 6 =>
                        \E i \in 1..Len(r) :
                            r[i] = C26_Qualifiers[C26_FirstSeen(C26_Qualifiers[k])]

\* the same for the columns of ASCII texts, whose lengths in bytes and in
\* characters agree
C26_AsciiColumns ==
    (\A k \in 1..Len(C26_Qualifiers) :
        str_len(C26_Qualifiers[k]) = Len(C26_Qualifiers[k]))
    => C26_CurrencyPairs

\* a column with a pair after its swap and a second class of pairs
C26_SwapCollapsed ==
    /\ pc = "currency_pair_list"
    /\ Len(locals.currency_pair_list) = 2
    /\ \E k \in 1..Len(C26_Qualifiers) :
          /\ Len(C26_Qualifiers[k]) = 6
          /\ ~contains(locals.currency_pair_list, C26_Qualifiers[k])

\* the row has, in the column named by the condition, one of the allowed
\* values
C27_Meets(row, condition) ==
    \E k \in 1..Len(crif_list[1]) :
        /\ crif_list[1][k] = condition[1]
        /\ k <= Len(row)
        /\ \E a \in 1..Len(condition[2]) : condition[2][a] = row[k]

\* the header row, which every table but the one without any row has
C27_Header == IF crif_list = <<>> THEN <<>> ELSE <<crif_list[1]>>

C27_Kept ==
    SelectSeq(SubSeq(crif_list, 2, Len(crif_list)), LAMBDA row :
        \A c \in 1..Len(locals.conditions) : C27_Meets(row, locals.conditions[c]))

\* C27. filter_rows returns, for every table and every set of conditions,
\* the header row of the table followed by exactly the data rows whose cell
\* in every condition column is one of that column's allowed values, in
\* their original order, and leaves the table as it was
C27_FilterRows ==
    [][pc' = "filter_rows" =>
          /\ locals'.result = C27_Header \o C27_Kept'
          /\ crif_list' = crif_list]_vars

\* two conditions have dropped a row between two rows they keep
C27_RowsDropped ==
    /\ pc = "filter_rows"
    /\ Len(locals.conditions) = 2
    /\ Len(locals.result) = 3
    /\ Len(crif_list) = 4
    /\ locals.result[2] = crif_list[2]
    /\ locals.result[3] = crif_list[4]
    /\ locals.result[2] # locals.result[3]

\* the rows of the vol risk types of rates whose qualifier is currency
C28_VolRows(currency) ==
    SelectSeq(Body, LAMBDA row :
        /\ row[2] \in {"Risk_IRVol", "Risk_InflationVol"}
        /\ row[3] = currency)

\* for the calculation currency the only vol risk type present is
\* Risk_InflationVol and its amounts sum to zero
C28_InflationOnly ==
    /\ C28_VolRows(calc_currency) # <<>>
    /\ \A i \in 1..Len(C28_VolRows(calc_currency)) :
           C28_VolRows(calc_currency)[i][2] = "Risk_InflationVol"
    /\ FSum(collect([i \in 1..Len(C28_VolRows(calc_currency)) |->
               parse_f64(C28_VolRows(calc_currency)[i][7])[1]])) = 0

\* the charge of all the currencies, each taken without the exception
C28_FromAllCurrencies ==
    Let(unique_column_values(crif_list, "Qualifier"), LAMBDA currency_list :
        IrCurvatureCharge(collect([c \in 1..Len(currency_list) |->
            CurvatureCurrency(MarginByRiskClass(crif_list, "", wnc), currency_list[c])])))

\* C28. ir_curvature_margin returns a Rates Curvature charge of zero when,
\* for the qualifier equal to the calculation currency, the only vol risk
\* type present is Risk_InflationVol and its AmountUSD values sum to zero,
\* whatever the IR-vol rows of the other currencies; in every other case
\* the charge is the one computed from all currencies
C28_InflationOnlyException ==
    pc = "ir_curvature_margin" =>
        locals.ir_curvature_margin["Rates"]["Curvature"] =
            IF C28_InflationOnly THEN 0 ELSE C28_FromAllCurrencies

\* the exception has returned zero beside IR-vol rows of another currency,
\* which by themselves carry a charge
C28_ExceptionTaken ==
    /\ pc = "ir_curvature_margin"
    /\ C28_InflationOnly
    /\ \E i \in 1..Len(Body) :
           /\ Body[i][2] = "Risk_IRVol"
           /\ Body[i][3] # calc_currency
    /\ C28_FromAllCurrencies > 0
    /\ locals.ir_curvature_margin["Rates"]["Curvature"] = 0

\* the rows of the pass that the claim is about: in ir_delta_margin the
\* Risk_IRCurve rows, in delta_margin the rows of the credit qualifier
C29_Rows ==
    SelectSeq(Tail(locals.crif), LAMBDA row :
        pc = "ir_delta_margin" => row[2] = "Risk_IRCurve")

\* the number of elements that sum the amount of row
C29_Entered(row) ==
    Cardinality({e \in 1..Len(locals.elements) :
                    \E i \in 1..Len(locals.elements[e].rows) :
                        locals.elements[e].rows[i] = row})

\* the rows behind the concentration factor of the pass
C29_FactorRows ==
    SelectSeq(Tail(locals.crif), LAMBDA row : row[2] # "Risk_XCcyBasis")

\* C29. No sensitivity is dropped between the concentration factor and the
\* weighted sensitivities: in delta_margin for the credit risk types and in
\* ir_delta_margin for Risk_IRCurve, the AmountUSD of each row with a
\* canonical lowercase tenor enters exactly one weighted-sensitivity
\* element, whatever its Label2, the empty one included; so, the tenors
\* being canonical, the amounts behind the list of weighted sensitivities
\* sum to the total behind the concentration factor of the qualifier
C29_NothingDropped ==
    pc \in {"ir_delta_margin", "delta_margin"} =>
        /\ \A r \in 1..Len(C29_Rows) :
               contains(SIMM_TENOR_LIST, C29_Rows[r][5]) => C29_Entered(C29_Rows[r]) = 1
        /\ (\A r \in 1..Len(C29_Rows) : contains(SIMM_TENOR_LIST, C29_Rows[r][5]))
               => FSum(collect([e \in 1..Len(locals.elements) |->
                      IF locals.elements[e].risk_class = "Risk_XCcyBasis" THEN 0
                      ELSE locals.elements[e].sensitivities]))
                  = locals.sensitivities_cr

\* with a Label2 on every row nothing is dropped
C29_LabelledRows ==
    (/\ pc \in {"ir_delta_margin", "delta_margin"}
     /\ \A r \in 1..Len(C29_Rows) : C29_Rows[r][6] # "")
        => C29_NothingDropped

\* the Label1 cells of the rows of the pass, lowercased
C30_Lowercased ==
    collect([r \in 1..(Len(locals.crif) - 1) |-> to_lowercase(locals.crif[r + 1][5])])

\* tenor_list on the rows of the pass gives the canonical tenors among the
\* lowercased Label1 cells, each once, in the order of their first rows
C30_TenorList ==
    pc \in {"ir_delta_margin", "delta_margin", "ir_vega_margin"} =>
        Let(tenor_list(locals.crif), LAMBDA tenors :
            /\ \A i \in 1..Len(tenors) : contains(SIMM_TENOR_LIST, tenors[i])
            /\ \A i, j \in 1..Len(tenors) : i # j => tenors[i] # tenors[j]
            /\ \A r \in 1..Len(C30_Lowercased) :
                   contains(SIMM_TENOR_LIST, C30_Lowercased[r])
                       => contains(tenors, C30_Lowercased[r])
            /\ \A i \in 1..Len(tenors) : contains(C30_Lowercased, tenors[i])
            /\ \A i, j \in 1..Len(tenors) :
                   i < j => position(C30_Lowercased, tenors[i], 1)[1]
                              < position(C30_Lowercased, tenors[j], 1)[1])

\* the rows of the pass whose amounts are summed tenor by tenor, with a
\* canonical tenor that has an uppercase letter
C30_UppercaseRows ==
    SelectSeq(Tail(locals.crif), LAMBDA row :
        /\ row[2] \in {"Risk_IRCurve", "Risk_CreditQ", "Risk_CreditNonQ", "Risk_IRVol",
                       "Risk_InflationVol"}
        /\ row[5] # to_lowercase(row[5])
        /\ contains(SIMM_TENOR_LIST, to_lowercase(row[5])))

\* C30. Tenor case-insensitivity: tenor_list lowercases Label1 and keeps the
\* canonical twelve tenors in first-seen order, and a row whose Label1 is a
\* canonical tenor written with uppercase letters is aggregated under that
\* tenor: its AmountUSD enters the weighted sensitivity of the lowercased
\* tenor, in the IR delta, the IR vega and the credit paths
C30_TenorCase ==
    pc \in {"ir_delta_margin", "delta_margin", "ir_vega_margin"} =>
        /\ C30_TenorList
        /\ \A r \in 1..Len(C30_UppercaseRows) :
               \E e \in 1..Len(locals.elements) :
                   /\ locals.elements[e].tenor = to_lowercase(C30_UppercaseRows[r][5])
                   /\ \E i \in 1..Len(locals.elements[e].rows) :
                          locals.elements[e].rows[i] = C30_UppercaseRows[r]

====
